---- MODULE Spec2Model ----
(***************************************************************************)
(* A model of the fetch/crawl orchestration and resume engine of the       *)
(* list-hunter scraper: commands/crawl_listings.py (per-practice-area      *)
(* crawl, checkpoint files, merge), http_client.py (ScraperClient.fetch)   *)
(* and the file writers of crawl_listings.py and fetch_profiles.py.        *)
(*                                                                         *)
(* asyncio runs one task at a time and switches tasks only at an await, so *)
(* every action below is the code between two awaits of one task.          *)
(***************************************************************************)
EXTENDS Integers, Sequences, FiniteSets, TLC

\* ------------------------------------------------------------------ bounds
\* Cards on one listing page.
MaxCards == 1
\* The cap --max-results is drawn from 1..MaxCap (0 stands for None).
MaxCap == 2
\* config.MAX_PAGES_PER_CATEGORY, scaled down from 200.
MAX_PAGES_PER_CATEGORY == 3
\* Records in one checkpoint file handed to the merge.
MaxFileLen == 2
\* Chunks json.dump writes for one document.
DocLen == 2
\* config.MAX_RETRIES.
MAX_RETRIES == 3
\* config.RETRY_BACKOFF_BASE, in seconds.
RETRY_BACKOFF_BASE == 2
\* config.MAX_CONCURRENT.
MAX_CONCURRENT == 3
\* config.DEFAULT_PA_WORKERS.
DEFAULT_PA_WORKERS == 3

\* The practice-area slugs of practice_areas.json, written as numbers whose
\* order is the sorted() order of the slugs.
PAs == {1, 2}
\* Record identifiers (the UUID of a profile URL): as many as a unit has
\* pages, so that a unit can find a new record on every page.
UUIDs == {1, 2, 3}
\* The payload of a record written by an earlier, interrupted run.
OldPayload == 0

\* ------------------------------------------------------------- sequences
SeqsUpTo(S, n) == UNION {[1..k -> S] : k \in 0..n}

Distinct(s) == \A i, j \in 1..Len(s) : i # j => s[i] # s[j]

Range(s) == {s[i] : i \in 1..Len(s)}

\* What parse_listing_page can return: cards with pairwise different uuids.
PageContents == {s \in SeqsUpTo(UUIDs, MaxCards) : Distinct(s)}

\* A record is <<uuid, payload>>; a JSON object is a sequence of records in
\* insertion order (a Python dict keeps it, json.dump writes it).
UuidsOf(recs) == {recs[i][1] : i \in 1..Len(recs)}

NoFile == [exists |-> FALSE, data |-> <<>>]

FileOf(recs) == [exists |-> TRUE, data |-> recs]

\* ----------------------------------------------------------------- state
VARIABLES
    \* arguments of crawl_listings.run
    force, max_results, num_workers, no_httpx,
    \* the data directory
    paFile, listings, progressFile,
    \* run: "init" before the call, "crawl" inside gather, "finished"
    rpc,
    \* one task per practice area: where it is, its page, its records
    pc, page, pa_records,
    worker_sem, global_uuids, stop_event,
    \* the checkpoints the resume scan of this run found
    completed_pa_files,
    \* history of the run, read by the properties only: whether a checkpoint
    \* lay in the directory when run was called, the pages each unit asked
    \* for, the calls for its current URL, the page that brought no new
    \* record, why it stopped, and whether this is the second run
    hadCheckpoint, reqs, calls, zeroNewAt, stopWhy, rerun, sameFinal

crawlVars == <<force, max_results, num_workers, no_httpx, paFile, listings,
               progressFile, rpc, pc, page, pa_records, worker_sem,
               global_uuids, stop_event, completed_pa_files, hadCheckpoint, reqs,
               calls, zeroNewAt, stopWhy, rerun, sameFinal>>

\* The merge phase on its own (SpecMerge): the checkpoint files of the data
\* directory, the cap, what the merge loaded, and listings.json.
VARIABLES mfiles, mcap, mread, mlistings, mpc

mergeVars == <<mfiles, mcap, mread, mlistings, mpc>>

\* One write of a JSON artifact (SpecAtomic): which artifact, the file at
\* its path, the file at path + ".tmp", the document being written, where
\* the writer is, and the file that was at the path before the call.
VARIABLES artifact, target, tmpf, doc, apc, prior

atomicVars == <<artifact, target, tmpf, doc, apc, prior>>

\* ScraperClient (SpecFetch): whether the browser is started, the free slots
\* of _semaphore, and for each caller of fetch where it is, the number of
\* its physical attempts, the outcome of the last one and what fetch gave;
\* the max_concurrent argument of the constructor (0 for None), and the
\* backoff waits of each call in the order they were made, each with the
\* outcome that caused it and its length in seconds.
VARIABLES crawlerOpen, fsem, fpc, attempt, flast, fres, max_concurrent, fwaits

fetchVars == <<crawlerOpen, fsem, fpc, attempt, flast, fres, max_concurrent, fwaits>>

\* The pass of one page URL through both backends (SpecPass), for each of
\* the callers: where the pass is, the calls made to each backend (as in
\* calls), and the class of the response the fast path got.
VARIABLES ppc, pcalls, hxlast

passVars == <<ppc, pcalls, hxlast>>

\* The pa_filter argument of crawl_listings.run: a set of slugs, empty for
\* None (SpecFilter draws it; elsewhere there is no filter).
VARIABLES pa_filter

filterVars == <<pa_filter>>

\* fetch_profiles.run.  fargs: the arguments force, retry_cf and no_httpx;
\* browsers: the argument browsers; html: the file html/{uuid}.html of each
\* uuid of listings.json ("none", "old": a profile page of an earlier run,
\* "old_cf": a challenge page saved by an earlier run, "new": written by
\* this run) and html0 the files at the start; to_fetch, statuses and
\* browser_targets: the locals of run; statusFile: fetch_status.json; fppc:
\* where run is; tpc: where the task of each uuid is; hsem: the free slots
\* of the sweep's semaphore; hxout: the answer the httpx client gave;
\* hxres and brres: the result of the sweep task and of the browser task
\* of a uuid as gather holds it; nhx and nbr: the httpx requests and the
\* browser fetches made for a uuid; batch_start: the loop variable of the
\* batch loop.
VARIABLES fargs, browsers, html0, html, to_fetch, statuses, statusFile, fppc,
          tpc, hsem, hxout, hxres, brres, nhx, nbr, browser_targets, batch_start

profVars == <<fargs, browsers, html0, html, to_fetch, statuses, statusFile, fppc,
              tpc, hsem, hxout, hxres, brres, nhx, nbr, browser_targets, batch_start>>

\* CrawlState on its own (SpecState): the sets passed to add_uuids so far,
\* in the order of the calls, and what the last call returned.
VARIABLES passed, ret

stateVars == <<passed, ret>>

\* The tasks of crawl_listings.run on their own (SpecTasks), one for each
\* position of the list remaining (remaining_list): practice_areas is the list of the
\* discovery file, already_done the slugs that have a checkpoint, task the
\* position of each task ("queued", "crawl", "done", "raised"), task_sem
\* the free slots of worker_sem, and writers the tasks that wrote the
\* checkpoint file of each slug.
VARIABLES practice_areas, already_done, remaining_list, task, task_sem, writers

taskVars == <<practice_areas, already_done, remaining_list, task, task_sem, writers>>

vars == <<crawlVars, mergeVars, atomicVars, fetchVars, passVars, filterVars, profVars, stateVars, taskVars>>

\* What each of the machines leaves alone.
notCrawl == <<mergeVars, atomicVars, fetchVars, passVars, filterVars, profVars, stateVars, taskVars>>

notMerge == <<crawlVars, atomicVars, fetchVars, passVars, filterVars, profVars, stateVars, taskVars>>

notAtomic == <<crawlVars, mergeVars, fetchVars, passVars, filterVars, profVars, stateVars, taskVars>>

notFetch == <<crawlVars, mergeVars, atomicVars, passVars, filterVars, profVars, stateVars, taskVars>>

notPass == <<crawlVars, mergeVars, atomicVars, fetchVars, filterVars, profVars, stateVars, taskVars>>

notProf == <<crawlVars, mergeVars, atomicVars, fetchVars, passVars, filterVars, stateVars, taskVars>>

\* (add_uuids acts on the CrawlState fields of the crawl.)
notState == <<mergeVars, atomicVars, fetchVars, passVars, filterVars, profVars, taskVars>>

notTask == <<crawlVars, mergeVars, atomicVars, fetchVars, passVars, filterVars, profVars, stateVars>>

\* ------------------------------------------------------------ CrawlState
\* A stop flag that no unit looks at.
ShouldStopNever == FALSE

should_stop == stop_event

\* add_uuids: the set after the update, and whether the cap is reached.
add_uuids_set(uuids) == global_uuids \cup uuids

\* A cap that is reached only when it is exceeded.
CapReachedOver(g) == max_results # 0 /\ Cardinality(g) > max_results

CapReached(g) == max_results # 0 /\ Cardinality(g) >= max_results

\* ----------------------------------------------------- per-unit helpers
RECURSIVE AddCards(_, _, _)
AddCards(recs, cards, pa) ==
    IF cards = <<>> THEN recs
    ELSE LET u == Head(cards)
             r == IF u \in UuidsOf(recs) THEN recs ELSE Append(recs, <<u, pa>>)
         IN AddCards(r, Tail(cards), pa)

\* The fetch calls made so far for the URL of the unit's current page: hx
\* calls of the fast path, br calls of browser_client.fetch, and whether the
\* fast path answered with a challenge.
NoCalls == [hx |-> 0, br |-> 0, cf |-> FALSE]

\* The first fetch call of page p: httpx unless disabled, else the browser.
FirstCall ==
    IF no_httpx THEN [hx |-> 0, br |-> 1, cf |-> FALSE]
    ELSE [hx |-> 1, br |-> 0, cf |-> FALSE]

FirstPc == IF no_httpx THEN "browser" ELSE "httpx"

\* A crawler that keeps paginating over pages of repeated entries.
StopsOnZeroNewNever(new_count) == FALSE

\* Whether a page with no new record ends the pagination (lines 210-216).
StopsOnZeroNew(new_count) == new_count = 0

\* The checkpoint write that ends _crawl_one_pa.
\* A checkpoint that is written whether or not the unit has records.
WritePaFileAlways(files, pa, recs) == [files EXCEPT ![pa] = FileOf(recs)]

WritePaFile(files, pa, recs) ==
    IF recs # <<>> THEN [files EXCEPT ![pa] = FileOf(recs)] ELSE files

\* A slot of worker_sem is handed back when bounded_crawl leaves.
\* An async with worker_sem that keeps the slot when the task is over.
ReleaseNothing(sem) == sem

Release(sem) == sem + 1

\* ---------------------------------------------------------------- merge
\* _find_completed_pa_files: the slugs that have a listings_{slug}.json.
_find_completed_pa_files(files) == {pa \in DOMAIN files : files[pa].exists}

\* A merge in which the last unit holding a uuid wins.
RECURSIVE MergeIntoLastWins(_, _)
MergeIntoLastWins(all_records, pa_data) ==
    IF pa_data = <<>> THEN all_records
    ELSE LET r == Head(pa_data)
             out == IF r[1] \in UuidsOf(all_records)
                    THEN [i \in 1..Len(all_records) |->
                             IF all_records[i][1] = r[1] THEN r ELSE all_records[i]]
                    ELSE Append(all_records, r)
         IN MergeIntoLastWins(out, Tail(pa_data))

RECURSIVE MergeInto(_, _)
MergeInto(all_records, pa_data) ==
    IF pa_data = <<>> THEN all_records
    ELSE LET r == Head(pa_data)
             a == IF r[1] \in UuidsOf(all_records) THEN all_records
                  ELSE Append(all_records, r)
         IN MergeInto(a, Tail(pa_data))

\* The slug the merge reads next: sorted(completed_files.items()).
NextSlug(S) == CHOOSE x \in S : \A y \in S : x <= y

RECURSIVE MergeSorted(_, _, _)
MergeSorted(files, todo, all_records) ==
    IF todo = {} THEN all_records
    ELSE LET pa == NextSlug(todo)
         IN MergeSorted(files, todo \ {pa}, MergeInto(all_records, files[pa].data))

\* A trim that keeps the last cap entries.
TrimToLast(all_records, cap) ==
    IF cap # 0 /\ Len(all_records) > cap
    THEN SubSeq(all_records, Len(all_records) - cap + 1, Len(all_records))
    ELSE all_records

TrimTo(all_records, cap) ==
    IF cap # 0 /\ Len(all_records) > cap THEN SubSeq(all_records, 1, cap)
    ELSE all_records

_merge_pa_files(files, cap) ==
    TrimTo(MergeSorted(files, _find_completed_pa_files(files), <<>>), cap)

\* A cleanup that removes nothing.
CleanupKeepsFiles(files) == files

_cleanup_pa_files(files) == [pa \in DOMAIN files |-> NoFile]

\* A cleanup that leaves crawl_progress.json where it is.
RemoveProgressKeeps(p) == p

\* _cleanup_pa_files, lines 279-282: crawl_progress.json is removed if it
\* is there.
RemoveProgress(p) == FALSE

\* ------------------------------------------------------------------ Init
\* A checkpoint left by an interrupted run: it holds at least one record,
\* since _crawl_one_pa writes none for an empty unit.
OldCheckpoints == {FileOf(<<<<u, OldPayload>>>>) : u \in UUIDs}

\* The workers argument of run: 0 stands for None and for 0, 1 is one worker
\* for all units.
WorkersArgs == {0, 1}

\* num_workers = workers or config.DEFAULT_PA_WORKERS, line 330.
NumWorkers(workers) == IF workers = 0 THEN DEFAULT_PA_WORKERS ELSE workers

CrawlInit ==
    /\ force \in BOOLEAN
    /\ max_results \in 0..MaxCap
    /\ num_workers \in {NumWorkers(workers) : workers \in WorkersArgs}
    /\ no_httpx \in BOOLEAN
    /\ paFile \in [PAs -> {NoFile} \cup OldCheckpoints]
    /\ listings = NoFile
    /\ progressFile \in BOOLEAN
    /\ rpc = "init"
    /\ pc = [pa \in PAs |-> "idle"]
    /\ page = [pa \in PAs |-> 1]
    /\ pa_records = [pa \in PAs |-> <<>>]
    /\ worker_sem = 0
    /\ global_uuids = {}
    /\ stop_event = FALSE
    /\ completed_pa_files = [pa \in PAs |-> NoFile]
    /\ hadCheckpoint = FALSE
    /\ reqs = [pa \in PAs |-> 0]
    /\ calls = [pa \in PAs |-> NoCalls]
    /\ zeroNewAt = [pa \in PAs |-> 0]
    /\ stopWhy = [pa \in PAs |-> "none"]
    /\ rerun = FALSE
    /\ sameFinal = TRUE

\* --------------------------------------------------------------- actions
\* run, lines 320-407: load the discovery list, clean up under force, leave
\* out the units that have a checkpoint, and start gather: the tasks run in
\* list order up to their first await, so the first num_workers of them take
\* a slot and issue the fetch of page 1, and the others wait for a slot.
\* A resume scan that skips nothing.
RemainingAll(files) == PAs

\* A filter that is not applied.
PracticeAreasUnfiltered == PAs

\* Lines 335-341: with a pa_filter the work list is the discovery list
\* restricted to the slugs of the filter, in the order of the discovery
\* list; slugs of the filter that are not discovered are only logged.
PracticeAreas == IF pa_filter # {} THEN {pa \in PAs : pa \in pa_filter} ELSE PAs

Remaining(files) ==
    {pa \in PracticeAreas : pa \notin _find_completed_pa_files(files)}

\* A --force that leaves the old checkpoints where they are.
ForceCleanupSkipped(files) == files

\* Lines 343-346.
ForceCleanup(files) == IF force THEN _cleanup_pa_files(files) ELSE files

\* A gather whose tasks all start at once, whatever the worker count.
FirstNAll(S, n) == S

FirstN(S, n) == {pa \in S : Cardinality({q \in S : q < pa}) < n}

RunStart ==
    /\ rpc = "init"
    /\ LET files == ForceCleanup(paFile)
           remaining == Remaining(files)
           running == FirstN(remaining, num_workers)
       IN /\ paFile' = files
          /\ progressFile' = IF force THEN RemoveProgress(progressFile) ELSE progressFile
          /\ completed_pa_files' = files
          /\ hadCheckpoint' = (_find_completed_pa_files(paFile) # {})
          /\ rpc' = "crawl"
          /\ pc' = [pa \in PAs |->
                        IF pa \in running THEN FirstPc
                        ELSE IF pa \in remaining THEN "queued"
                        ELSE IF pa \in PracticeAreas THEN "skip" ELSE "out"]
          /\ worker_sem' = num_workers - Cardinality(running)
          /\ reqs' = [pa \in PAs |-> IF pa \in running THEN 1 ELSE 0]
          /\ calls' = [pa \in PAs |-> IF pa \in running THEN FirstCall ELSE NoCalls]
    /\ page' = [pa \in PAs |-> 1]
    /\ pa_records' = [pa \in PAs |-> <<>>]
    /\ global_uuids' = {}
    /\ stop_event' = FALSE
    /\ zeroNewAt' = [pa \in PAs |-> 0]
    /\ stopWhy' = [pa \in PAs |-> "none"]
    /\ UNCHANGED <<force, max_results, num_workers, no_httpx, listings, rerun, sameFinal>>
    /\ UNCHANGED notCrawl

\* The end of _crawl_one_pa, lines 227-237, and of bounded_crawl.
FinishUnit(pa, recs, why) ==
    /\ pc' = [pc EXCEPT ![pa] = "done"]
    /\ pa_records' = [pa_records EXCEPT ![pa] = recs]
    /\ paFile' = WritePaFile(paFile, pa, recs)
    /\ worker_sem' = Release(worker_sem)
    /\ stopWhy' = [stopWhy EXCEPT ![pa] = why]
    /\ UNCHANGED <<page, reqs, calls>>

\* A page loop without the safety limit.
PageLoopNoLimit(p) == TRUE

\* while page <= config.MAX_PAGES_PER_CATEGORY, line 143.
PageLoopGoesOn(p) == p <= MAX_PAGES_PER_CATEGORY

\* The task of pa got the html of its page (lines 182-225), then runs on to
\* its next await: the fetch of the next page, or its end.
DeliverHtml(pa, cards) ==
    LET recs == AddCards(pa_records[pa], cards, pa)
        new_count == Len(recs) - Len(pa_records[pa])
        registers == cards # <<>> /\ ~StopsOnZeroNew(new_count)
        g == IF registers THEN add_uuids_set(UuidsOf(recs)) ELSE global_uuids
        cap == registers /\ CapReached(g)
        why == IF cards = <<>> THEN "nocards"
               ELSE IF StopsOnZeroNew(new_count) THEN "nonew"
               ELSE IF cap THEN "cap"
               ELSE IF ~PageLoopGoesOn(page[pa] + 1) THEN "maxpages"
               ELSE IF should_stop THEN "flag"
               ELSE "none"
    IN /\ global_uuids' = g
       /\ stop_event' = (stop_event \/ cap)
       /\ zeroNewAt' = IF cards # <<>> /\ new_count = 0 /\ zeroNewAt[pa] = 0
                       THEN [zeroNewAt EXCEPT ![pa] = page[pa]] ELSE zeroNewAt
       /\ IF why # "none"
          THEN FinishUnit(pa, recs, why)
          ELSE /\ pa_records' = [pa_records EXCEPT ![pa] = recs]
               /\ page' = [page EXCEPT ![pa] = page[pa] + 1]
               /\ pc' = [pc EXCEPT ![pa] = FirstPc]
               /\ reqs' = [reqs EXCEPT ![pa] = reqs[pa] + 1]
               /\ calls' = [calls EXCEPT ![pa] = FirstCall]
               /\ UNCHANGED <<paFile, worker_sem, stopWhy>>

\* A fast path that is tried again after a challenge.
AfterFastPathRetry(c, status) ==
    IF status = "cf_blocked"
    THEN [pc |-> "httpx", calls |-> [c EXCEPT !.hx = c.hx + 1, !.cf = TRUE]]
    ELSE [pc |-> "browser", calls |-> [c EXCEPT !.br = c.br + 1]]

\* What _crawl_one_pa does when _httpx_fetch_listing_page gave no html (lines
\* 163-173): for "cf_blocked" and for "failed" alike html stays None and
\* browser_client.fetch is called for the same URL.
AfterFastPath(c, status) ==
    [pc |-> "browser",
     calls |-> [c EXCEPT !.br = c.br + 1, !.cf = (status = "cf_blocked")]]

\* client.get returned: _httpx_fetch_listing_page classifies the response.
HttpxReturn(pa) ==
    /\ rpc = "crawl" /\ pc[pa] = "httpx"
    /\ \/ \E cards \in PageContents : DeliverHtml(pa, cards)
       \/ \E status \in {"cf_blocked", "failed"} :
            /\ pc' = [pc EXCEPT ![pa] = AfterFastPath(calls[pa], status).pc]
            /\ calls' = [calls EXCEPT ![pa] = AfterFastPath(calls[pa], status).calls]
            /\ UNCHANGED <<paFile, page, pa_records, worker_sem, global_uuids,
                           stop_event, reqs, zeroNewAt, stopWhy>>
    /\ UNCHANGED <<force, max_results, num_workers, no_httpx, listings,
                   progressFile, rpc, completed_pa_files, hadCheckpoint, rerun, sameFinal>>
    /\ UNCHANGED notCrawl

\* browser_client.fetch returned a body or None (lines 172-180).
BrowserReturn(pa) ==
    /\ rpc = "crawl" /\ pc[pa] = "browser"
    /\ \/ \E cards \in PageContents : DeliverHtml(pa, cards)
       \/ /\ FinishUnit(pa, pa_records[pa], "null")
          /\ UNCHANGED <<global_uuids, stop_event, zeroNewAt>>
    /\ UNCHANGED <<force, max_results, num_workers, no_httpx, listings,
                   progressFile, rpc, completed_pa_files, hadCheckpoint, rerun, sameFinal>>
    /\ UNCHANGED notCrawl

\* A gather that lets the first exception of a task leave run.
AfterUnitExceptionEscapes(r) == "aborted"

\* asyncio.gather(*tasks, return_exceptions=True), line 407: the exception
\* of a task becomes its result, and run stays where it is.
AfterUnitException(r) == r

\* An exception leaves _crawl_one_pa (the browser fetch, the parser or the
\* progress callback raised): no checkpoint is written, the slot is freed
\* and gather keeps the exception as the task's result.
UnitRaises(pa) ==
    /\ rpc = "crawl" /\ pc[pa] \in {"httpx", "browser"}
    /\ pc' = [pc EXCEPT ![pa] = "raised"]
    /\ worker_sem' = Release(worker_sem)
    /\ stopWhy' = [stopWhy EXCEPT ![pa] = "raised"]
    /\ rpc' = AfterUnitException(rpc)
    /\ UNCHANGED <<force, max_results, num_workers, no_httpx, paFile, listings,
                   progressFile, page, pa_records, global_uuids, stop_event,
                   completed_pa_files, hadCheckpoint, reqs, calls, zeroNewAt, rerun, sameFinal>>
    /\ UNCHANGED notCrawl

\* A waiting task gets a slot of worker_sem (first come, first served) and
\* enters _crawl_one_pa: lines 143-154.
WorkerStart(pa) ==
    /\ rpc = "crawl" /\ pc[pa] = "queued"
    /\ worker_sem > 0
    /\ \A q \in PAs : pc[q] = "queued" => pa <= q
    /\ IF should_stop
       THEN /\ pc' = [pc EXCEPT ![pa] = "done"]
            /\ stopWhy' = [stopWhy EXCEPT ![pa] = "flag"]
            /\ paFile' = WritePaFile(paFile, pa, pa_records[pa])
            /\ UNCHANGED <<worker_sem, reqs, calls>>
       ELSE /\ pc' = [pc EXCEPT ![pa] = FirstPc]
            /\ worker_sem' = worker_sem - 1
            /\ reqs' = [reqs EXCEPT ![pa] = 1]
            /\ calls' = [calls EXCEPT ![pa] = FirstCall]
            /\ UNCHANGED <<stopWhy, paFile>>
    /\ UNCHANGED <<force, max_results, num_workers, no_httpx, listings,
                   progressFile, rpc, page, pa_records, global_uuids, stop_event,
                   completed_pa_files, hadCheckpoint, zeroNewAt, rerun, sameFinal>>
    /\ UNCHANGED notCrawl

\* A gather that returns as soon as one task is over.
GatherDoneFirst(pcs) == \E pa \in PAs : pcs[pa] \in {"skip", "out", "done", "raised"}

\* await asyncio.gather(*tasks, ...), line 407: every task has returned or
\* raised (units that were skipped or filtered out have no task).
GatherDone(pcs) == \A pa \in PAs : pcs[pa] \in {"skip", "out", "done", "raised"}

\* gather returned (or there was nothing to crawl): lines 420-433, the merge,
\* the write of listings.json and the cleanup.
RunFinish ==
    /\ rpc = "crawl"
    /\ GatherDone(pc)
    /\ LET all_records == _merge_pa_files(paFile, max_results)
       IN /\ listings' = FileOf(all_records)
          /\ sameFinal' = (rerun => FileOf(all_records) = listings)
    /\ paFile' = _cleanup_pa_files(paFile)
    /\ progressFile' = RemoveProgress(progressFile)
    /\ rpc' = "finished"
    /\ UNCHANGED <<force, max_results, num_workers, no_httpx, pc, page,
                   pa_records, worker_sem, global_uuids, stop_event, completed_pa_files, hadCheckpoint,
                   reqs, calls, zeroNewAt, stopWhy, rerun>>
    /\ UNCHANGED notCrawl

CrawlNext ==
    \/ RunStart
    \/ \E pa \in PAs : HttpxReturn(pa)
    \/ \E pa \in PAs : BrowserReturn(pa)
    \/ \E pa \in PAs : UnitRaises(pa)
    \/ \E pa \in PAs : WorkerStart(pa)
    \/ RunFinish

\* The same command is started once more on the data directory the finished
\* run left, with the same arguments and without --force.
Rerun ==
    /\ rpc = "finished" /\ ~rerun
    /\ rerun' = TRUE
    /\ force' = FALSE
    /\ rpc' = "init"
    /\ pc' = [pa \in PAs |-> "idle"]
    /\ page' = [pa \in PAs |-> 1]
    /\ pa_records' = [pa \in PAs |-> <<>>]
    /\ worker_sem' = 0
    /\ global_uuids' = {}
    /\ stop_event' = FALSE
    /\ completed_pa_files' = [pa \in PAs |-> NoFile]
    /\ hadCheckpoint' = FALSE
    /\ reqs' = [pa \in PAs |-> 0]
    /\ calls' = [pa \in PAs |-> NoCalls]
    /\ zeroNewAt' = [pa \in PAs |-> 0]
    /\ stopWhy' = [pa \in PAs |-> "none"]
    /\ UNCHANGED <<max_results, num_workers, no_httpx, paFile, listings,
                   progressFile, sameFinal>>
    /\ UNCHANGED notCrawl

\* ------------------------------------------------------ the merge phase
\* Slugs with a listings_{slug}.json in the data directory, in sorted order.
MergeSlugs == {1, 2, 3}

\* A checkpoint of slug s: records with pairwise different uuids, each with
\* the payload s (two units never hold the same payload for a uuid).
CheckpointsOf(s) ==
    {FileOf([i \in 1..Len(c) |-> <<c[i], s>>]) :
        c \in {x \in SeqsUpTo(UUIDs, MaxFileLen) : Distinct(x)}}

MergeInit ==
    /\ mfiles \in {f \in [MergeSlugs -> UNION {CheckpointsOf(s) : s \in MergeSlugs} \cup {NoFile}] :
                      \A s \in MergeSlugs : f[s] \in CheckpointsOf(s) \cup {NoFile}}
    /\ mcap \in 0..MaxCap
    /\ mread = [s \in MergeSlugs |-> NoFile]
    /\ mlistings = NoFile
    /\ mpc = "init"

MergeIdle ==
    /\ mfiles = [s \in MergeSlugs |-> NoFile]
    /\ mcap = 0
    /\ mread = [s \in MergeSlugs |-> NoFile]
    /\ mlistings = NoFile
    /\ mpc = "idle"

\* run, lines 420-427: merge, write listings.json, delete the checkpoints.
MergePhase ==
    /\ mpc = "init"
    /\ mread' = mfiles
    /\ mlistings' = FileOf(_merge_pa_files(mfiles, mcap))
    /\ mfiles' = _cleanup_pa_files(mfiles)
    /\ mpc' = "done"
    /\ UNCHANGED mcap
    /\ UNCHANGED notMerge

\* The same lines 420-427 step by step, with a crash of the process at any
\* point (SpecFinish).

\* A cleanup that may run before listings.json is written.
CleanupMayStartEarly(p) == p \in {"merged", "written"}

\* _cleanup_pa_files is called at line 427, after _atomic_write(output_path,
\* all_records) at line 424 has returned.
CleanupMayStart(p) == p = "written"

\* _merge_pa_files, line 421: the checkpoints are loaded.
FinishMerge ==
    /\ mpc = "init"
    /\ mread' = mfiles
    /\ mpc' = "merged"
    /\ UNCHANGED <<mfiles, mcap, mlistings>>
    /\ UNCHANGED notMerge

\* _atomic_write(output_path, all_records), line 424: os.replace puts the
\* merged records in place of listings.json.
FinishWrite ==
    /\ mpc = "merged"
    /\ mlistings' = FileOf(_merge_pa_files(mread, mcap))
    /\ mpc' = "written"
    /\ UNCHANGED <<mfiles, mcap, mread>>
    /\ UNCHANGED notMerge

\* os.remove(filepath) in the loop of _cleanup_pa_files, lines 275-277.
FinishRemove(s) ==
    /\ CleanupMayStart(mpc)
    /\ mfiles[s].exists
    /\ mfiles' = [mfiles EXCEPT ![s] = NoFile]
    /\ UNCHANGED <<mcap, mread, mlistings, mpc>>
    /\ UNCHANGED notMerge

\* run returns, lines 429-433.
FinishReturn ==
    /\ mpc = "written"
    /\ \A s \in MergeSlugs : ~mfiles[s].exists
    /\ mpc' = "returned"
    /\ UNCHANGED <<mfiles, mcap, mread, mlistings>>
    /\ UNCHANGED notMerge

\* The process is killed.
FinishCrash ==
    /\ mpc \in {"init", "merged", "written"}
    /\ mpc' = "crashed"
    /\ UNCHANGED <<mfiles, mcap, mread, mlistings>>
    /\ UNCHANGED notMerge

\* --------------------------------------------------- writing an artifact
Artifacts == {"checkpoint", "listings", "fetch_status"}

Chunks == {1, 2}

Docs == [1..DocLen -> Chunks]

\* The function that writes the artifact: crawl_listings writes checkpoints
\* and listings.json with _atomic_write (lines 230 and 424), fetch_profiles
\* writes fetch_status.json with _write_status (lines 258, 286, 327).
Writer(a) == IF a = "fetch_status" THEN "_write_status" ELSE "_atomic_write"

\* A writer that opens the path itself.
OpenedPathTarget(w) == "target"

\* The file a writer opens with mode "w": _atomic_write opens path + ".tmp"
\* (crawl_listings.py line 52), _write_status opens the path itself
\* (fetch_profiles.py line 193).
OpenedPath(w) == IF w = "_atomic_write" THEN "tmp" ELSE "target"

WritePath(a) == OpenedPath(Writer(a))

AtomicInit ==
    /\ artifact \in Artifacts
    /\ target \in {NoFile} \cup {FileOf(d) : d \in Docs}
    /\ tmpf \in {NoFile} \cup {FileOf(d) : d \in SeqsUpTo(Chunks, DocLen)}
    /\ WritePath(artifact) = "target" => tmpf = NoFile
    /\ doc \in Docs
    /\ apc = "start"
    /\ prior = target

AtomicIdle ==
    /\ artifact = "checkpoint"
    /\ target = NoFile
    /\ tmpf = NoFile
    /\ doc = <<>>
    /\ apc = "idle"
    /\ prior = NoFile

\* open(..., "w") creates the file or cuts it to length 0.
OpenForWrite ==
    /\ apc = "start"
    /\ IF WritePath(artifact) = "tmp"
       THEN tmpf' = FileOf(<<>>) /\ UNCHANGED target
       ELSE target' = FileOf(<<>>) /\ UNCHANGED tmpf
    /\ apc' = "dump"
    /\ UNCHANGED <<artifact, doc, prior>>
    /\ UNCHANGED notAtomic

\* json.dump writes the document chunk by chunk.
DumpChunk ==
    /\ apc = "dump"
    /\ IF WritePath(artifact) = "tmp"
       THEN /\ Len(tmpf.data) < Len(doc)
            /\ tmpf' = FileOf(Append(tmpf.data, doc[Len(tmpf.data) + 1]))
            /\ UNCHANGED target
       ELSE /\ Len(target.data) < Len(doc)
            /\ target' = FileOf(Append(target.data, doc[Len(target.data) + 1]))
            /\ UNCHANGED tmpf
    /\ UNCHANGED <<artifact, doc, apc, prior>>
    /\ UNCHANGED notAtomic

\* The with block ends: the file is closed with the whole document in it.
CloseFile ==
    /\ apc = "dump"
    /\ IF WritePath(artifact) = "tmp"
       THEN Len(tmpf.data) = Len(doc) /\ apc' = "closed"
       ELSE Len(target.data) = Len(doc) /\ apc' = "done"
    /\ UNCHANGED <<artifact, target, tmpf, doc, prior>>
    /\ UNCHANGED notAtomic

\* os.replace(tmp, path), line 54.
Replace ==
    /\ apc = "closed"
    /\ target' = tmpf
    /\ tmpf' = NoFile
    /\ apc' = "done"
    /\ UNCHANGED <<artifact, doc, prior>>
    /\ UNCHANGED notAtomic

CrashedAt(at) ==
    IF at = "start" THEN "crashed at start"
    ELSE IF at = "dump" THEN "crashed in dump"
    ELSE "crashed before replace"

\* The process dies (or json.dump raises) before the write is over.
Crash ==
    /\ apc \in {"start", "dump", "closed"}
    /\ apc' = CrashedAt(apc)
    /\ UNCHANGED <<artifact, target, tmpf, doc, prior>>
    /\ UNCHANGED notAtomic

\* --------------------------------------------------- ScraperClient.fetch
Callers == {1, 2}

\* What one call of crawler.arun can bring (_single_fetch, lines 229-258):
\* an exception, status 404, a page, a challenge page, or a result that is
\* no success (an error status, a timeout, an empty body).
Outcomes == {"exception", "404", "html", "challenge", "fail"}

\* A 404 that is retried like a failure.
RetryableWith404 == {"exception", "challenge", "fail", "404"}

\* A challenge page that is not retried.
RetryableNoChallenge == {"exception", "fail"}

\* The outcomes for which _single_fetch raises FetchError.
Retryable == {"exception", "challenge", "fail"}

\* stop_after_attempt(config.MAX_RETRIES), line 204.
StopAfterAttempt(n) == n >= MAX_RETRIES

Min(a, b) == IF a <= b THEN a ELSE b

Max(a, b) == IF a >= b THEN a ELSE b

\* wait_exponential(multiplier=b, min=b, max=b ** MAX_RETRIES), lines
\* 205-209, after attempt n: multiplier * 2 ** (n - 1), kept within
\* min and max.
WaitExponential(n) ==
    Max(RETRY_BACKOFF_BASE,
        Min(RETRY_BACKOFF_BASE * 2 ^ (n - 1), RETRY_BACKOFF_BASE ^ MAX_RETRIES))

\* A fetch that catches RetryError alone, although reraise=True makes
\* tenacity raise the FetchError of the last attempt.
CaughtRetryErrorOnly(exc) == exc = "RetryError"

\* except (RetryError, FetchError), line 184.
Caught(exc) == exc \in {"RetryError", "FetchError"}

\* asyncio.Semaphore(max_concurrent or config.MAX_CONCURRENT), line 98.
SemaphoreWidth(mc) == IF mc = 0 THEN MAX_CONCURRENT ELSE mc

\* A semaphore that is entered without taking a slot.
TakeNothing(sem) == sem

\* async with self._semaphore, line 181: one slot is taken.
Take(sem) == sem - 1

FetchInit ==
    /\ crawlerOpen \in BOOLEAN
    /\ max_concurrent \in 0..Cardinality(Callers)
    /\ fsem = SemaphoreWidth(max_concurrent)
    /\ fpc = [c \in Callers |-> "idle"]
    /\ attempt = [c \in Callers |-> 0]
    /\ flast = [c \in Callers |-> "none"]
    /\ fres = [c \in Callers |-> "none"]
    /\ fwaits = [c \in Callers |-> <<>>]

FetchIdle ==
    /\ crawlerOpen = FALSE
    /\ max_concurrent = 0
    /\ fsem = SemaphoreWidth(max_concurrent)
    /\ fpc = [c \in Callers |-> "off"]
    /\ attempt = [c \in Callers |-> 0]
    /\ flast = [c \in Callers |-> "none"]
    /\ fres = [c \in Callers |-> "none"]
    /\ fwaits = [c \in Callers |-> <<>>]

\* A rate-limit sleep inside async with self._semaphore.
SlotTakenAtCall(sem) == sem - 1

\* Lines 176-179 come before async with self._semaphore (181): the free
\* slots when the rate-limit sleep starts are the free slots before it.
SlotAtCall(sem) == sem

\* fetch is called: the rate-limit sleep starts (lines 176-179).
FetchCall(c) ==
    /\ fpc[c] = "idle"
    /\ fpc' = [fpc EXCEPT ![c] = "sleep"]
    /\ fsem' = SlotAtCall(fsem)
    /\ UNCHANGED <<crawlerOpen, attempt, flast, fres, max_concurrent, fwaits>>
    /\ UNCHANGED notFetch

\* With a slot of _semaphore the first attempt starts (lines 181-183,
\* 222-230); without a started browser _single_fetch raises RuntimeError,
\* which neither tenacity nor fetch catches, and the slot is given back.
EnterSemaphore(c) ==
    IF crawlerOpen
    THEN /\ fpc' = [fpc EXCEPT ![c] = "attempt"]
         /\ attempt' = [attempt EXCEPT ![c] = 1]
         /\ fsem' = Take(fsem)
         /\ UNCHANGED <<flast, fres>>
    ELSE /\ fpc' = [fpc EXCEPT ![c] = "done"]
         /\ fres' = [fres EXCEPT ![c] = "raise"]
         /\ UNCHANGED <<attempt, fsem, flast>>

\* The sleep is over: take a slot, or wait for one.
SleepDone(c) ==
    /\ fpc[c] = "sleep"
    /\ IF fsem > 0
       THEN EnterSemaphore(c)
       ELSE /\ fpc' = [fpc EXCEPT ![c] = "wait"]
            /\ UNCHANGED <<fsem, attempt, flast, fres>>
    /\ UNCHANGED <<crawlerOpen, max_concurrent, fwaits>>
    /\ UNCHANGED notFetch

Acquire(c) ==
    /\ fpc[c] = "wait" /\ fsem > 0
    /\ EnterSemaphore(c)
    /\ UNCHANGED <<crawlerOpen, max_concurrent, fwaits>>
    /\ UNCHANGED notFetch

\* crawler.arun came back: _single_fetch, the retry decision of tenacity
\* and the except clause of fetch.
AttemptReturn(c) ==
    /\ fpc[c] = "attempt"
    /\ \E o \in Outcomes :
          /\ flast' = [flast EXCEPT ![c] = o]
          /\ IF o \in Retryable /\ ~StopAfterAttempt(attempt[c])
             THEN /\ fpc' = [fpc EXCEPT ![c] = "backoff"]
                  /\ fwaits' = [fwaits EXCEPT ![c] = Append(@, <<o, WaitExponential(attempt[c])>>)]
                  /\ UNCHANGED <<fsem, fres>>
             ELSE /\ fpc' = [fpc EXCEPT ![c] = "done"]
                  /\ fsem' = fsem + 1
                  /\ fres' = [fres EXCEPT ![c] =
                                 IF o = "html" THEN "html"
                                 ELSE IF o = "404" THEN "None"
                                 ELSE IF Caught("FetchError") THEN "None"
                                 ELSE "raise"]
                  /\ UNCHANGED fwaits
    /\ UNCHANGED <<crawlerOpen, attempt, max_concurrent>>
    /\ UNCHANGED notFetch

\* The exponential wait of tenacity is over: the next attempt starts.
BackoffDone(c) ==
    /\ fpc[c] = "backoff"
    /\ fpc' = [fpc EXCEPT ![c] = "attempt"]
    /\ attempt' = [attempt EXCEPT ![c] = attempt[c] + 1]
    /\ UNCHANGED <<crawlerOpen, fsem, flast, fres, max_concurrent, fwaits>>
    /\ UNCHANGED notFetch

\* ------------------------------------------- one URL through both backends
\* What client.get can bring on the fast path.
HttpxResponses == {"success", "404", "error", "cf_blocked"}

\* _httpx_fetch_listing_page, lines 94-115: an exception, a 404 and any
\* status >= 400 are all "failed".
HttpxStatus(r) == IF r \in {"404", "error"} THEN "failed" ELSE r

PassInit ==
    /\ ppc = [c \in Callers |-> FirstPc]
    /\ pcalls = [c \in Callers |-> FirstCall]
    /\ hxlast = [c \in Callers |-> "none"]

PassIdle ==
    /\ ppc = [c \in Callers |-> "off"]
    /\ pcalls = [c \in Callers |-> NoCalls]
    /\ hxlast = [c \in Callers |-> "none"]

\* _crawl_one_pa, lines 158-170: the fast path answered.
FastPath(c) ==
    /\ ppc[c] = "httpx"
    /\ \E r \in HttpxResponses :
          /\ hxlast' = [hxlast EXCEPT ![c] = r]
          /\ IF HttpxStatus(r) = "success"
             THEN /\ ppc' = [ppc EXCEPT ![c] = "done"]
                  /\ UNCHANGED pcalls
             ELSE /\ ppc' = [ppc EXCEPT ![c] = AfterFastPath(pcalls[c], HttpxStatus(r)).pc]
                  /\ pcalls' = [pcalls EXCEPT ![c] = AfterFastPath(pcalls[c], HttpxStatus(r)).calls]
    /\ UNCHANGED notPass

\* _crawl_one_pa, lines 171-173: browser_client.fetch is called for the URL.
\* The fetch of the pool is the fetch of a ScraperClient.
SlowPath(c) ==
    /\ ppc[c] = "browser"
    /\ FetchCall(c)

\* ------------------------------------------------------- specifications
\* ---------------------------------------------------------------------
\* fetch_profiles.run: the partition, the httpx sweep and the browser
\* batches (src/commands/fetch_profiles.py).

\* The uuids of listings.json, in the order of the file.
Profiles == {1, 2}

\* config.DEFAULT_HTTPX_CONCURRENT, the width of the sweep's semaphore.
DEFAULT_HTTPX_CONCURRENT == 1

\* BATCH_SIZE, line 188.
BATCH_SIZE == 1

\* browsers * 3 * 5, line 306: the browser contexts a batch may have for
\* each browser.
ContextsPerBrowser == 1

\* What client.get can do for a profile: raise, answer 404, answer another
\* status >= 400 without or with a challenge signature, answer below 400
\* with a challenge signature, answer a profile page; "oserror" is a
\* profile page of which the write to html/{uuid}.html raises.
HxResponses == {"exception", "404", "503", "503cf", "200cf", "200", "oserror"}

\* _httpx_fetch_one, lines 53-86: the status it returns ("raised": it
\* does not return).
_httpx_fetch_one(r) ==
    CASE r = "exception" -> "failed"
      [] r = "404" -> "failed"
      [] r \in {"503", "503cf"} -> "failed"
      [] r = "200cf" -> "cf_blocked"
      [] r = "200" -> "success"
      [] r = "oserror" -> "raised"

\* What pool.fetch can do: return html, return None, raise.
PoolOutcomes == {"html", "None", "raise"}

\* A _fetch_one that reports success without html.
FetchOneAlwaysSuccess(o) ==
    CASE o = "html" -> "success"
      [] o = "None" -> "success"
      [] o = "raise" -> "raised"

\* _fetch_one, lines 171-185.
_fetch_one(o) ==
    CASE o = "html" -> "success"
      [] o = "None" -> "failed"
      [] o = "raise" -> "raised"

\* A partition that fetches every uuid.
ToFetchAll(h, args) == Profiles

\* The partition of run, lines 239-251: a uuid is fetched if force is set,
\* if it has no file, or if retry_cf is set and its file is a challenge
\* page.
ToFetch(h, args) ==
    {u \in Profiles :
        \/ args.force
        \/ h[u] = "none"
        \/ args.retry_cf /\ h[u] = "old_cf"}

\* A browser phase over everything that was to fetch.
BrowserTargetsAll(args, tf, res) == tf

\* browser_targets, lines 273 and 289: to_fetch without the sweep, else
\* the uuids the sweep put into cf_blocked (lines 136-137).
BrowserTargets(args, tf, res) ==
    IF args.no_httpx THEN tf ELSE {u \in tf : res[u] = "cf_blocked"}

\* batch_size, line 306.
BatchSize(n) == Max(BATCH_SIZE, n * ContextsPerBrowser)

\* A browser phase that gathers every target at once, at each turn of the
\* batch loop.
BatchEverything(targets, start, size) == targets

\* items[batch_start:batch_start + batch_size], line 309: the items are
\* the targets in the order of listings.json.
Batch(targets, start, size) ==
    {u \in targets :
        LET i == Cardinality({v \in targets : v < u})
        IN  start <= i /\ i < start + size}

\* Result loops that record a task that raised as failed.
UpdateStatusesRaisedFailed(st, us, res) ==
    [u \in Profiles |->
        IF u \in us /\ res[u] \in {"success", "failed"} THEN res[u]
        ELSE IF u \in us /\ res[u] = "raised" THEN "failed" ELSE st[u]]

\* statuses.update(httpx_statuses) and the loops over the results of a
\* gather (lines 131-139 and 321-325): a result that is an exception, and
\* cf_blocked, add no entry.
UpdateStatuses(st, us, res) ==
    [u \in Profiles |->
        IF u \in us /\ res[u] \in {"success", "failed"} THEN res[u] ELSE st[u]]

\* _write_status, lines 191-194.
_write_status(st) == FileOf(st)

ProfArgs == [force : BOOLEAN, retry_cf : BOOLEAN, no_httpx : BOOLEAN]

ProfInit ==
    /\ fargs \in ProfArgs
    /\ browsers \in {1, 2}
    /\ html0 \in [Profiles -> {"none", "old", "old_cf"}]
    /\ html = html0
    /\ to_fetch = {}
    /\ statuses = [u \in Profiles |-> "none"]
    /\ statusFile = NoFile
    /\ fppc = "init"
    /\ tpc = [u \in Profiles |-> "idle"]
    /\ hsem = DEFAULT_HTTPX_CONCURRENT
    /\ hxout = [u \in Profiles |-> "none"]
    /\ hxres = [u \in Profiles |-> "none"]
    /\ brres = [u \in Profiles |-> "none"]
    /\ nhx = [u \in Profiles |-> 0]
    /\ nbr = [u \in Profiles |-> 0]
    /\ browser_targets = {}
    /\ batch_start = 0

ProfIdle ==
    /\ fargs = [force |-> FALSE, retry_cf |-> FALSE, no_httpx |-> FALSE]
    /\ browsers = 1
    /\ html0 = [u \in Profiles |-> "none"]
    /\ html = html0
    /\ to_fetch = {}
    /\ statuses = [u \in Profiles |-> "none"]
    /\ statusFile = NoFile
    /\ fppc = "off"
    /\ tpc = [u \in Profiles |-> "idle"]
    /\ hsem = DEFAULT_HTTPX_CONCURRENT
    /\ hxout = [u \in Profiles |-> "none"]
    /\ hxres = [u \in Profiles |-> "none"]
    /\ brres = [u \in Profiles |-> "none"]
    /\ nhx = [u \in Profiles |-> 0]
    /\ nbr = [u \in Profiles |-> 0]
    /\ browser_targets = {}
    /\ batch_start = 0

\* The browser phase, lines 294-319: with targets the pool is opened and
\* the tasks of the batch at start are gathered, each running up to its
\* pool.fetch; without targets, or after the last batch, run returns.
StartBatch(targets, start) ==
    LET batch == Batch(targets, start, BatchSize(browsers))
    IN  /\ browser_targets' = targets
        /\ batch_start' = start
        /\ IF batch = {}
           THEN /\ fppc' = "done"
                /\ UNCHANGED <<tpc, nbr>>
           ELSE /\ fppc' = "browser"
                /\ tpc' = [u \in Profiles |-> IF u \in batch THEN "fetch" ELSE tpc[u]]
                /\ nbr' = [u \in Profiles |-> IF u \in batch THEN nbr[u] + 1 ELSE nbr[u]]

\* run up to its first await, lines 226-281: the partition; with nothing
\* to fetch the status file is written and run returns; else the sweep
\* gathers one task for each uuid to fetch, each of them running up to its
\* sleep, or, with no_httpx, the browser phase starts.
ProfStart ==
    /\ fppc = "init"
    /\ LET tf == ToFetch(html, fargs)
           st == [u \in Profiles |-> IF u \in tf THEN "none" ELSE "skipped"]
       IN  /\ to_fetch' = tf
           /\ statuses' = st
           /\ IF tf = {}
              THEN /\ statusFile' = _write_status(st)
                   /\ fppc' = "done"
                   /\ UNCHANGED <<tpc, nbr, browser_targets, batch_start>>
              ELSE IF ~fargs.no_httpx
              THEN /\ fppc' = "sweep"
                   /\ tpc' = [u \in Profiles |-> IF u \in tf THEN "sleep" ELSE "idle"]
                   /\ UNCHANGED <<statusFile, nbr, browser_targets, batch_start>>
              ELSE /\ StartBatch(BrowserTargets(fargs, tf, hxres), 0)
                   /\ UNCHANGED statusFile
    /\ UNCHANGED <<fargs, browsers, html0, html, hsem, hxout, hxres, brres, nhx>>
    /\ UNCHANGED notProf

\* bounded_fetch, lines 113-117: the sleep of a sweep task is over; it
\* enters the semaphore and calls client.get, or waits for a slot.
SweepSleepDone(u) ==
    /\ fppc = "sweep" /\ tpc[u] = "sleep"
    /\ IF hsem > 0
       THEN /\ tpc' = [tpc EXCEPT ![u] = "get"]
            /\ hsem' = hsem - 1
            /\ nhx' = [nhx EXCEPT ![u] = nhx[u] + 1]
       ELSE /\ tpc' = [tpc EXCEPT ![u] = "wait"]
            /\ UNCHANGED <<hsem, nhx>>
    /\ UNCHANGED <<fargs, browsers, html0, html, to_fetch, statuses, statusFile,
                   fppc, hxout, hxres, brres, nbr, browser_targets, batch_start>>
    /\ UNCHANGED notProf

SweepAcquire(u) ==
    /\ fppc = "sweep" /\ tpc[u] = "wait" /\ hsem > 0
    /\ tpc' = [tpc EXCEPT ![u] = "get"]
    /\ hsem' = hsem - 1
    /\ nhx' = [nhx EXCEPT ![u] = nhx[u] + 1]
    /\ UNCHANGED <<fargs, browsers, html0, html, to_fetch, statuses, statusFile,
                   fppc, hxout, hxres, brres, nbr, browser_targets, batch_start>>
    /\ UNCHANGED notProf

\* client.get came back: _httpx_fetch_one classifies the answer, writes
\* the file of a profile page, and the slot is given back.
HttpxGetReturn(u) ==
    /\ fppc = "sweep" /\ tpc[u] = "get"
    /\ \E r \in HxResponses :
          /\ hxout' = [hxout EXCEPT ![u] = r]
          /\ hxres' = [hxres EXCEPT ![u] = _httpx_fetch_one(r)]
          /\ html' = IF _httpx_fetch_one(r) = "success"
                     THEN [html EXCEPT ![u] = "new"] ELSE html
    /\ tpc' = [tpc EXCEPT ![u] = "swept"]
    /\ hsem' = hsem + 1
    /\ UNCHANGED <<fargs, browsers, html0, to_fetch, statuses, statusFile, fppc,
                   brres, nhx, nbr, browser_targets, batch_start>>
    /\ UNCHANGED notProf

\* The gather of the sweep returned, lines 129-147 and 285-319: the
\* statuses of the sweep are merged and written, and the browser phase
\* starts over browser_targets.
SweepDone ==
    /\ fppc = "sweep"
    /\ \A u \in to_fetch : tpc[u] = "swept"
    /\ statuses' = UpdateStatuses(statuses, to_fetch, hxres)
    /\ statusFile' = _write_status(statuses')
    /\ StartBatch(BrowserTargets(fargs, to_fetch, hxres), 0)
    /\ UNCHANGED <<fargs, browsers, html0, html, to_fetch, hsem, hxout, hxres,
                   brres, nhx>>
    /\ UNCHANGED notProf

\* pool.fetch came back in the task of u: _fetch_one writes the file if
\* there is html.
PoolFetchReturn(u) ==
    /\ fppc = "browser" /\ tpc[u] = "fetch"
    /\ \E o \in PoolOutcomes :
          /\ brres' = [brres EXCEPT ![u] = _fetch_one(o)]
          /\ html' = IF o = "html" THEN [html EXCEPT ![u] = "new"] ELSE html
    /\ tpc' = [tpc EXCEPT ![u] = "fetched"]
    /\ UNCHANGED <<fargs, browsers, html0, to_fetch, statuses, statusFile, fppc,
                   hsem, hxout, hxres, nhx, nbr, browser_targets, batch_start>>
    /\ UNCHANGED notProf

\* The gather of a batch returned, lines 319-327: its statuses are merged
\* and written and the next batch starts.
BatchDone ==
    /\ fppc = "browser"
    /\ LET batch == Batch(browser_targets, batch_start, BatchSize(browsers))
       IN  /\ \A u \in batch : tpc[u] = "fetched"
           /\ statuses' = UpdateStatuses(statuses, batch, brres)
           /\ statusFile' = _write_status(statuses')
           /\ StartBatch(browser_targets, batch_start + BatchSize(browsers))
    /\ UNCHANGED <<fargs, browsers, html0, html, to_fetch, hsem, hxout, hxres,
                   brres, nhx>>
    /\ UNCHANGED notProf

\* ---------------------------------------------------------------------
\* The tasks of crawl_listings.run, for any list practice_areas.

\* The longest list practice_areas of the discovery file.
MaxList == 3

TaskIdle ==
    /\ practice_areas = <<>> /\ already_done = {} /\ remaining_list = <<>>
    /\ task = <<>> /\ task_sem = 0
    /\ writers = [pa \in PAs |-> {}]

\* The list is whatever practice_areas.json holds: discover writes a
\* sorted list without repetition, but run takes the list as it is in
\* the file (lines 321-326); workers is 1 or 2.
TaskInit ==
    /\ practice_areas \in SeqsUpTo(PAs, MaxList)
    /\ already_done \in SUBSET PAs
    /\ remaining_list = <<>>
    /\ task = <<>>
    /\ task_sem \in {1, 2}
    /\ writers = [pa \in PAs |-> {}]

\* remaining, line 351: the entries of practice_areas that have no
\* checkpoint, every entry of the list being kept.
RemainingList(pas, done) == SelectSeq(pas, LAMBDA pa : pa \notin done)

\* Lines 348-407: one task bounded_crawl for each entry of remaining is
\* gathered; the tasks take the slots of worker_sem in the order of the
\* list.
TasksStart ==
    /\ task = <<>> /\ remaining_list = <<>>
    /\ RemainingList(practice_areas, already_done) # <<>>
    /\ remaining_list' = RemainingList(practice_areas, already_done)
    /\ task' = [i \in 1..Len(remaining_list') |-> IF i <= task_sem THEN "crawl" ELSE "queued"]
    /\ task_sem' = Max(0, task_sem - Len(remaining_list'))
    /\ UNCHANGED <<practice_areas, already_done, writers>>
    /\ UNCHANGED notTask

\* The task at position i ends: _crawl_one_pa writes the checkpoint of
\* its slug if it has records (lines 227-235), or an exception leaves the
\* task; the slot is given back.
TaskEnds(i) ==
    /\ i \in DOMAIN task /\ task[i] = "crawl"
    /\ \E end \in {"records", "empty", "raised"} :
          /\ task' = [task EXCEPT ![i] = IF end = "raised" THEN "raised" ELSE "done"]
          /\ writers' = IF end = "records"
                         THEN [writers EXCEPT ![remaining_list[i]] = @ \cup {i}]
                         ELSE writers
    /\ task_sem' = Release(task_sem)
    /\ UNCHANGED <<practice_areas, already_done, remaining_list>>
    /\ UNCHANGED notTask

\* A queued task gets a slot and enters _crawl_one_pa.
TaskStarts(i) ==
    /\ i \in DOMAIN task /\ task[i] = "queued" /\ task_sem > 0
    /\ \A j \in DOMAIN task : task[j] = "queued" => i <= j
    /\ task' = [task EXCEPT ![i] = "crawl"]
    /\ task_sem' = task_sem - 1
    /\ UNCHANGED <<practice_areas, already_done, remaining_list, writers>>
    /\ UNCHANGED notTask

\* No run of crawl_listings.run.
NoRun ==
    /\ force = FALSE /\ num_workers = 1 /\ no_httpx = FALSE
    /\ paFile = [pa \in PAs |-> NoFile]
    /\ listings = NoFile
    /\ progressFile = FALSE
    /\ rpc = "idle"
    /\ pc = [pa \in PAs |-> "idle"]
    /\ page = [pa \in PAs |-> 1]
    /\ pa_records = [pa \in PAs |-> <<>>]
    /\ worker_sem = 0
    /\ global_uuids = {}
    /\ stop_event = FALSE
    /\ completed_pa_files = [pa \in PAs |-> NoFile]
    /\ hadCheckpoint = FALSE
    /\ reqs = [pa \in PAs |-> 0]
    /\ calls = [pa \in PAs |-> NoCalls]
    /\ zeroNewAt = [pa \in PAs |-> 0]
    /\ stopWhy = [pa \in PAs |-> "none"]
    /\ rerun = FALSE
    /\ sameFinal = TRUE

\* ---------------------------------------------------------------------
\* CrawlState on its own: any sequence of add_uuids calls.

\* The calls of add_uuids that are followed.
MaxCalls == 2

StateIdle == passed = <<>> /\ ret = FALSE

\* CrawlState.add_uuids, lines 71-80.
add_uuids(uuids) ==
    /\ Len(passed) < MaxCalls
    /\ global_uuids' = add_uuids_set(uuids)
    /\ stop_event' = (stop_event \/ CapReached(global_uuids'))
    /\ ret' = CapReached(global_uuids')
    /\ passed' = Append(passed, uuids)
    /\ UNCHANGED <<force, max_results, num_workers, no_httpx, paFile, listings,
                   progressFile, rpc, pc, page, pa_records, worker_sem,
                   completed_pa_files, hadCheckpoint, reqs, calls, zeroNewAt,
                   stopWhy, rerun, sameFinal>>
    /\ UNCHANGED notState

CrawlIdle == max_results = 0 /\ NoRun

\* crawl_listings.run, once.
Init == CrawlInit /\ MergeIdle /\ AtomicIdle /\ FetchIdle /\ PassIdle /\ pa_filter = {} /\ StateIdle /\ TaskIdle /\ ProfIdle

Next == CrawlNext

Spec == Init /\ [][Next]_vars

\* crawl_listings.run on a clean data directory with one worker slot for
\* the two units, so that both units are remaining and one of them waits
\* for the slot, under the scheduling of the event loop: a task that can
\* run is run, and every fetch that was awaited returns or raises.
InitLive ==
    /\ Init
    /\ num_workers = NumWorkers(1)
    /\ max_results \in {0, 1}
    /\ ~force /\ ~progressFile
    /\ \A pa \in PAs : ~paFile[pa].exists

Fairness ==
    /\ WF_vars(RunStart)
    /\ WF_vars(RunFinish)
    /\ \A pa \in PAs : WF_vars(WorkerStart(pa))
    /\ \A pa \in PAs : WF_vars(HttpxReturn(pa) \/ BrowserReturn(pa) \/ UnitRaises(pa))

SpecLive == InitLive /\ [][Next]_vars /\ Fairness

\* Two runs in a row. The first run starts on a clean data directory, the
\* browser is the only backend (which path brought a page changes nothing in
\* what is kept) and the units are crawled by one worker (workers=1).
RerunInit ==
    /\ Init
    /\ ~force /\ ~progressFile /\ no_httpx
    /\ num_workers = NumWorkers(1)
    /\ \A pa \in PAs : ~paFile[pa].exists

\* With no_httpx set no request goes through the fast path.
NextRerun ==
    \/ RunStart
    \/ \E pa \in PAs : BrowserReturn(pa)
    \/ \E pa \in PAs : UnitRaises(pa)
    \/ \E pa \in PAs : WorkerStart(pa)
    \/ RunFinish
    \/ Rerun

SpecRerun == RerunInit /\ [][NextRerun]_vars

\* crawl_listings.run with a pa_filter: one discovered slug, or both
\* discovered slugs and a slug that is not in the discovery list.
PaFilters == {{1}, {2}, {3}, {1, 2, 3}}

InitFilter ==
    /\ CrawlInit /\ MergeIdle /\ AtomicIdle /\ FetchIdle /\ PassIdle
    /\ ~force /\ ~progressFile
    /\ pa_filter \in PaFilters
    /\ ProfIdle /\ StateIdle /\ TaskIdle

SpecFilter == InitFilter /\ [][Next]_vars

\* The merge phase of run on any set of checkpoint files.
InitMerge == MergeInit /\ CrawlIdle /\ AtomicIdle /\ FetchIdle /\ PassIdle /\ pa_filter = {} /\ StateIdle /\ TaskIdle /\ ProfIdle

NextMerge == MergePhase

SpecMerge == InitMerge /\ [][NextMerge]_vars

NextFinish ==
    \/ FinishMerge
    \/ FinishWrite
    \/ \E s \in MergeSlugs : FinishRemove(s)
    \/ FinishReturn
    \/ FinishCrash

SpecFinish == InitMerge /\ [][NextFinish]_vars

\* One write of one JSON artifact, with a crash at any point.
InitAtomic == AtomicInit /\ CrawlIdle /\ MergeIdle /\ FetchIdle /\ PassIdle /\ pa_filter = {} /\ StateIdle /\ TaskIdle /\ ProfIdle

NextAtomic ==
    \/ OpenForWrite
    \/ DumpChunk
    \/ CloseFile
    \/ Replace
    \/ Crash

SpecAtomic == InitAtomic /\ [][NextAtomic]_vars

\* Concurrent calls of ScraperClient.fetch.
InitFetch == FetchInit /\ CrawlIdle /\ MergeIdle /\ AtomicIdle /\ PassIdle /\ pa_filter = {} /\ StateIdle /\ TaskIdle /\ ProfIdle

NextFetch ==
    \/ \E c \in Callers : FetchCall(c)
    \/ \E c \in Callers : SleepDone(c)
    \/ \E c \in Callers : Acquire(c)
    \/ \E c \in Callers : AttemptReturn(c)
    \/ \E c \in Callers : BackoffDone(c)

SpecFetch == InitFetch /\ [][NextFetch]_vars

\* Page URLs that go through the fast path and then, if it gave no html,
\* through the fetch of a started browser client.
InitPass ==
    /\ CrawlIdle /\ MergeIdle /\ AtomicIdle /\ pa_filter = {} /\ StateIdle /\ TaskIdle /\ ProfIdle
    /\ FetchInit /\ crawlerOpen /\ PassInit

NextPass ==
    \/ \E c \in Callers : FastPath(c)
    \/ \E c \in Callers : SlowPath(c)
    \/ \E c \in Callers : SleepDone(c)
    \/ \E c \in Callers : Acquire(c)
    \/ \E c \in Callers : AttemptReturn(c)
    \/ \E c \in Callers : BackoffDone(c)

SpecPass == InitPass /\ [][NextPass]_vars

\* A CrawlState with any max_results (0: None), and calls of add_uuids.
InitState ==
    /\ max_results \in 0..MaxCap /\ NoRun
    /\ MergeIdle /\ AtomicIdle /\ FetchIdle /\ PassIdle /\ pa_filter = {} /\ StateIdle /\ TaskIdle
    /\ ProfIdle

\* fetch_profiles.run, once.
InitProf ==
    /\ CrawlIdle /\ MergeIdle /\ AtomicIdle /\ FetchIdle /\ PassIdle /\ pa_filter = {} /\ StateIdle /\ TaskIdle
    /\ ProfInit

NextProf ==
    \/ ProfStart
    \/ \E u \in Profiles : SweepSleepDone(u)
    \/ \E u \in Profiles : SweepAcquire(u)
    \/ \E u \in Profiles : HttpxGetReturn(u)
    \/ SweepDone
    \/ \E u \in Profiles : PoolFetchReturn(u)
    \/ BatchDone

SpecProf == InitProf /\ [][NextProf]_vars

InitTasks ==
    /\ CrawlIdle /\ MergeIdle /\ AtomicIdle /\ FetchIdle /\ PassIdle /\ pa_filter = {} /\ StateIdle
    /\ ProfIdle /\ TaskInit

NextTasks ==
    \/ TasksStart
    \/ \E i \in 1..MaxList : TaskEnds(i)
    \/ \E i \in 1..MaxList : TaskStarts(i)

SpecTasks == InitTasks /\ [][NextTasks]_vars

NextState == \E uuids \in SUBSET UUIDs : add_uuids(uuids)

SpecState == InitState /\ [][NextState]_vars

\* ================================================================ claims
\* Every record of listings.json was found by the crawl of this run: it is
\* in the records of the unit that its payload names.
FoundByThisRun ==
    \A i \in 1..Len(listings.data) :
        LET r == listings.data[i]
        IN r[2] \in PAs /\ r \in Range(pa_records[r[2]])

\* A unit asked for page 1, or it got its worker slot only after the cap
\* flag was set and asked for nothing.
CrawledOrCapped(pa) == reqs[pa] >= 1 \/ stopWhy[pa] = "flag"

\* C1 as stated: after a run to completion, a second run with the same
\* inputs and force=False fetches no page and writes the same listings.json.
C1_ResumeIdempotence ==
    rerun => (\A pa \in PAs : reqs[pa] = 0) /\ sameFinal

\* C1 as amended: a finished run has deleted every checkpoint, so the second
\* run (force=False) skips no unit: the units that get a slot at once ask
\* for page 1 again, in the end every unit has been crawled from page 1
\* unless the cap flag was set before it got a slot, and listings.json
\* holds only records found by the second crawl.
C1_RerunCrawlsAgain ==
    /\ rpc = "finished" => \A pa \in PAs : ~paFile[pa].exists
    /\ (rerun /\ rpc # "init") =>
          /\ \A pa \in PAs : ~completed_pa_files[pa].exists /\ pc[pa] # "skip"
          /\ \A pa \in FirstN(PAs, num_workers) : reqs[pa] >= 1
    /\ (rerun /\ rpc = "finished") =>
          /\ \A pa \in PAs : CrawledOrCapped(pa)
          /\ FoundByThisRun

C1_Witness ==
    /\ rerun /\ rpc = "finished"
    /\ \A pa \in PAs : reqs[pa] >= 1
    /\ listings.data # <<>>

\* C2 as stated: in a non-force run a unit that has a checkpoint is never
\* fetched, and every identifier of its checkpoint is in listings.json.
C2_SkippedAndIncluded ==
    (~force /\ rpc \in {"crawl", "finished"}) =>
        \A pa \in PAs : completed_pa_files[pa].exists =>
            /\ reqs[pa] = 0 /\ pc[pa] = "skip" /\ calls[pa] = NoCalls
            /\ rpc = "finished" =>
                  UuidsOf(completed_pa_files[pa].data) \subseteq UuidsOf(listings.data)

\* C2 as amended: in a non-force run a unit that has a checkpoint is never
\* fetched on either path, and every identifier of its checkpoint is in
\* listings.json unless the max_results trim cut the merge, in which case
\* listings.json holds exactly max_results records.
C2_SkippedAndMerged ==
    (~force /\ rpc \in {"crawl", "finished"}) =>
        \A pa \in PAs : completed_pa_files[pa].exists =>
            /\ reqs[pa] = 0 /\ pc[pa] = "skip" /\ calls[pa] = NoCalls
            /\ rpc = "finished" =>
                  \A u \in UuidsOf(completed_pa_files[pa].data) :
                      \/ u \in UuidsOf(listings.data)
                      \/ max_results # 0 /\ Len(listings.data) = max_results

C2_Witness ==
    /\ ~force /\ rpc = "finished"
    /\ \E pa, q \in PAs :
          /\ completed_pa_files[pa].exists
          /\ reqs[q] >= 1 /\ pa_records[q] # <<>>
          /\ UuidsOf(completed_pa_files[pa].data) \subseteq UuidsOf(listings.data)

\* What --force guarantees from the first fetch on: no checkpoint of an
\* earlier run and no crawl_progress.json is left, no unit is skipped, and
\* a unit's requests are the pages 1, 2, ... in order.
ForceStartsFresh ==
    /\ ~progressFile
    /\ \A pa \in PAs :
          /\ ~completed_pa_files[pa].exists /\ pc[pa] # "skip"
          /\ \A i \in 1..Len(paFile[pa].data) : paFile[pa].data[i][2] # OldPayload
          /\ reqs[pa] >= 1 => page[pa] = reqs[pa]

\* C3 as stated: with force=True the checkpoints and crawl_progress.json are
\* gone before any fetch, every unit is crawled again from page 1, and
\* listings.json holds no identifier that only an old checkpoint had.
C3_ForceRecrawlsAll ==
    (force /\ rpc \in {"crawl", "finished"}) =>
        /\ ForceStartsFresh
        /\ rpc = "finished" => (\A pa \in PAs : reqs[pa] >= 1) /\ FoundByThisRun

\* C3 as amended: with force=True the checkpoints and crawl_progress.json
\* are gone before any fetch, every unit is crawled again from page 1 except
\* a unit that gets its worker slot only after the cap flag was set (it
\* fetches nothing), and listings.json holds no identifier that only an old
\* checkpoint had.
C3_ForceClearsState ==
    (force /\ rpc \in {"crawl", "finished"}) =>
        /\ ForceStartsFresh
        /\ \A pa \in FirstN(PAs, num_workers) : reqs[pa] >= 1
        /\ rpc = "finished" => (\A pa \in PAs : CrawledOrCapped(pa)) /\ FoundByThisRun

C3_Witness ==
    /\ force /\ hadCheckpoint /\ rpc = "finished"
    /\ \A pa \in PAs : reqs[pa] >= 1
    /\ listings.data # <<>>

\* C6: once a page of a unit brought only identifiers the unit already had,
\* the unit has stopped at that page: no further page was asked for.
C6_StopsOnZeroNew ==
    \A pa \in PAs : zeroNewAt[pa] # 0 =>
        /\ pc[pa] = "done" /\ stopWhy[pa] = "nonew"
        /\ reqs[pa] = zeroNewAt[pa] /\ page[pa] = zeroNewAt[pa]

C6_Witness ==
    \E pa \in PAs :
        /\ zeroNewAt[pa] # 0 /\ zeroNewAt[pa] < MAX_PAGES_PER_CATEGORY
        /\ ~stop_event

\* C7: for the URL a unit is at, each backend is called at most once, and
\* once the fast path answered with a challenge it has been called exactly
\* once and the browser exactly once; a null from the browser ends the unit
\* at that page.
C7_EscalationOnce ==
    \A pa \in PAs :
        /\ calls[pa].hx <= 1 /\ calls[pa].br <= 1
        /\ calls[pa].cf =>
              /\ calls[pa].hx = 1 /\ calls[pa].br = 1
              /\ pc[pa] \in {"browser", "done", "raised"}
        /\ stopWhy[pa] = "null" => pc[pa] = "done" /\ calls[pa].br = 1

C7_Witness ==
    \E pa \in PAs : calls[pa].cf /\ pc[pa] = "done" /\ stopWhy[pa] = "null"

\* ---------------------------------------------------------------- merge
\* The uuids the loaded checkpoint files hold.
MergedUuids == UNION {UuidsOf(mread[s].data) : s \in MergeSlugs}

\* The units whose checkpoint holds uuid u, and the first of them in
\* sorted order.
Holders(u) == {s \in MergeSlugs : u \in UuidsOf(mread[s].data)}

FirstHolder(u) == CHOOSE s \in Holders(u) : \A t \in Holders(u) : s <= t

\* Position of uuid u in the checkpoint of unit s.
PosIn(s, u) == CHOOSE i \in 1..Len(mread[s].data) : mread[s].data[i][1] = u

\* u comes before v in the sorted merge: its first holder sorts first, or
\* both have the same first holder and u stands before v in its file.
MergeBefore(u, v) ==
    \/ FirstHolder(u) < FirstHolder(v)
    \/ /\ FirstHolder(u) = FirstHolder(v)
       /\ PosIn(FirstHolder(u), u) < PosIn(FirstHolder(v), v)

\* C4: after the merge, listings.json holds at most one entry for a record
\* identifier, every entry is the record of the first unit in sorted order
\* among the units whose checkpoint holds the identifier, and every
\* identifier of the checkpoints has its entry unless the cap trimmed it.
C4_MergeFirstWins ==
    mpc = "done" =>
        LET out == mlistings.data IN
        /\ \A i, j \in 1..Len(out) : i # j => out[i][1] # out[j][1]
        /\ \A i \in 1..Len(out) :
              /\ out[i][1] \in MergedUuids
              /\ out[i][2] = FirstHolder(out[i][1])
        /\ (mcap = 0 \/ Cardinality(MergedUuids) <= mcap) => UuidsOf(out) = MergedUuids

\* Units 2 and 3 both hold a uuid that unit 1 does not, and the merged
\* artifact has the payload of unit 2 for it.
C4_Witness ==
    /\ mpc = "done"
    /\ \E i \in 1..Len(mlistings.data) :
          /\ Holders(mlistings.data[i][1]) = {2, 3}
          /\ mlistings.data[i][2] = 2

\* C5: with max_results N > 0, listings.json never holds more than N
\* identifiers; when the checkpoints hold more than N unique identifiers it
\* holds exactly N, which are the first N of the first-wins merge in sorted
\* unit order, in that order; with max_results unset every merged record is
\* kept.
C5_CapHonored ==
    mpc = "done" =>
        LET out == mlistings.data IN
        /\ mcap # 0 => Len(out) <= mcap
        /\ (mcap # 0 /\ Cardinality(MergedUuids) > mcap) => Len(out) = mcap
        /\ mcap = 0 => UuidsOf(out) = MergedUuids /\ Len(out) = Cardinality(MergedUuids)
        /\ \A i, j \in 1..Len(out) : i < j => MergeBefore(out[i][1], out[j][1])
        /\ \A u \in MergedUuids \ UuidsOf(out) :
              \A i \in 1..Len(out) : MergeBefore(out[i][1], u)

\* The checkpoints hold more identifiers than the cap, from more than one
\* unit, and listings.json holds exactly cap of them.
C5_Witness ==
    /\ mpc = "done"
    /\ mcap # 0
    /\ Cardinality(MergedUuids) > mcap
    /\ Len(mlistings.data) = mcap
    /\ \E u \in MergedUuids \ UuidsOf(mlistings.data) : FirstHolder(u) > 1

\* --------------------------------------------------------- atomic write
\* A file that is absent or holds a whole document.
Complete(f) == ~f.exists \/ Len(f.data) = DocLen

\* C8: while _atomic_write has not renamed, crashed or not, the target path
\* is exactly what it was before the call; the target is never a partial
\* document; after a successful call the target is the new document and no
\* .tmp file remains.
C8_AtomicWrite ==
    Writer(artifact) = "_atomic_write" /\ apc # "idle" =>
        /\ apc # "done" => target = prior
        /\ Complete(target)
        /\ apc = "done" => target = FileOf(doc) /\ ~tmpf.exists

\* _atomic_write crashed in the middle of json.dump, over an older version
\* of the artifact.
C8_Witness ==
    /\ Writer(artifact) = "_atomic_write"
    /\ apc = "crashed in dump"
    /\ prior.exists
    /\ tmpf.exists /\ Len(tmpf.data) \in 1..(DocLen - 1)
    /\ target = prior

\* C9: whichever JSON artifact is written (a per-unit checkpoint,
\* listings.json, fetch_status.json), the artifact path is never truncated
\* or partially written, and until the write is over it is what it was
\* before.
C9_EveryArtifactAtomic ==
    apc # "idle" =>
        /\ Complete(target)
        /\ apc # "done" => target = prior

\* ---------------------------------------------------------------- fetch
\* C10: with a started browser fetch never raises; a call whose every
\* attempt failed made exactly MAX_RETRIES attempts and returned None; None
\* is returned only on a 404 or after MAX_RETRIES failed attempts.
C10_FetchNeverRaises ==
    \A c \in Callers :
        /\ crawlerOpen => fres[c] # "raise"
        /\ attempt[c] <= MAX_RETRIES
        /\ fpc[c] = "done" /\ flast[c] \in Retryable =>
              attempt[c] = MAX_RETRIES /\ fres[c] = "None"
        /\ fres[c] = "None" =>
              \/ flast[c] = "404"
              \/ flast[c] \in Retryable /\ attempt[c] = MAX_RETRIES

\* A call returned None after MAX_RETRIES failed attempts, and another
\* returned None on a 404 at its first attempt.
C10_Witness ==
    \E c, d \in Callers :
        /\ fpc[c] = "done" /\ fres[c] = "None"
        /\ flast[c] \in Retryable /\ attempt[c] = MAX_RETRIES
        /\ fpc[d] = "done" /\ fres[d] = "None"
        /\ flast[d] = "404" /\ attempt[d] = 1

\* C11: a 404 ends the fetch at once: the call is over with None (no
\* exception), no attempt and no backoff wait follow the 404, and a call
\* whose first response is the 404 has made exactly one attempt and has
\* waited for no backoff.
C11_NotFoundEndsFetch ==
    \A c \in Callers : flast[c] = "404" =>
        /\ fpc[c] = "done" /\ fres[c] = "None"
        /\ Len(fwaits[c]) = attempt[c] - 1
        /\ \A i \in 1..Len(fwaits[c]) : fwaits[c][i][1] # "404"
        /\ attempt[c] = 1 => fwaits[c] = <<>>

\* The first response of a call was a 404 while the other call is still
\* retrying.
C11_Witness ==
    \E c, d \in Callers :
        /\ flast[c] = "404" /\ attempt[c] = 1 /\ fpc[c] = "done"
        /\ fpc[d] = "backoff"

\* C13: one retry ladder for every retryable cause: a challenge page and a
\* transport failure alike are followed by a wait of
\* RETRY_BACKOFF_BASE * 2^(n-1) seconds after attempt n, there are at most
\* MAX_RETRIES attempts, and a call whose last attempt failed, by a
\* challenge or otherwise, made MAX_RETRIES attempts and returned None.
C13_SingleLadder ==
    \A c \in Callers :
        /\ attempt[c] <= MAX_RETRIES
        /\ \A i \in 1..Len(fwaits[c]) :
              /\ fwaits[c][i][1] \in {"exception", "challenge", "fail"}
              /\ fwaits[c][i][2] = RETRY_BACKOFF_BASE * 2 ^ (i - 1)
        /\ fpc[c] = "backoff" =>
              /\ flast[c] \in {"exception", "challenge", "fail"}
              /\ Len(fwaits[c]) = attempt[c] /\ attempt[c] < MAX_RETRIES
        /\ (fpc[c] \in {"attempt", "done"} /\ crawlerOpen) => Len(fwaits[c]) = attempt[c] - 1
        /\ (fpc[c] = "done" /\ flast[c] \in {"exception", "challenge", "fail"}) =>
              /\ attempt[c] = MAX_RETRIES
              /\ fres[c] = "None"

\* Every attempt of a call brought a challenge page and the call returned
\* None.
C13_Witness ==
    \E c \in Callers :
        /\ fpc[c] = "done" /\ fres[c] = "None" /\ flast[c] = "challenge"
        /\ attempt[c] = MAX_RETRIES
        /\ \A i \in 1..Len(fwaits[c]) : fwaits[c][i][1] = "challenge"

\* The calls that hold a slot of _semaphore: an attempt is in flight or the
\* call waits for its next attempt.
Holding == {c \in Callers : fpc[c] \in {"attempt", "backoff"}}

InFlight == {c \in Callers : fpc[c] = "attempt"}

\* C16: the attempts in flight on one ScraperClient are never more than
\* its semaphore width (max_concurrent, or MAX_CONCURRENT when it is not
\* given), and the free slots are the width minus the calls that hold one.
C16_BackendCap ==
    /\ Cardinality(InFlight) <= SemaphoreWidth(max_concurrent)
    /\ Cardinality(Holding) <= SemaphoreWidth(max_concurrent)
    /\ fsem = SemaphoreWidth(max_concurrent) - Cardinality(Holding)

\* With one slot, one call has its attempt in flight and the other waits
\* for the slot.
C16_Witness ==
    /\ max_concurrent = 1
    /\ \E c, d \in Callers : fpc[c] = "attempt" /\ fpc[d] = "wait"

\* C12: once an attempt for a URL was answered with a 404, no further
\* physical fetch of the URL is made in the pass: after a 404 on the fast
\* path the browser makes no attempt, and a 404 in the browser client is
\* its last attempt.
C12_NotFoundNeverRetried ==
    \A c \in Callers :
        /\ hxlast[c] = "404" => attempt[c] = 0
        /\ flast[c] = "404" => fpc[c] = "done"

\* C14 as stated: the backend that saw a challenge page for a URL makes no
\* further attempt at the URL: the fast path is not called again, and
\* the browser client never waits and retries after a challenge.
C14_ChallengeOnlyEscalates ==
    \A c \in Callers :
        /\ pcalls[c].cf => pcalls[c].hx = 1 /\ ppc[c] # "httpx"
        /\ \A i \in 1..Len(fwaits[c]) : fwaits[c][i][1] # "challenge"

\* C14 as amended: the fast path makes one attempt at a URL and after a
\* challenge hands the URL to the browser client, once; the browser client
\* retries a challenge itself, on its one backoff ladder, up to MAX_RETRIES
\* attempts and then returns None, and nothing is handed back to the fast
\* path.
C14_FastPathEscalatesOnce ==
    \A c \in Callers :
        /\ pcalls[c].hx <= 1 /\ pcalls[c].br <= 1
        /\ hxlast[c] = "cf_blocked" =>
              /\ pcalls[c].cf /\ pcalls[c].hx = 1 /\ pcalls[c].br = 1
              /\ ppc[c] = "browser"
        /\ (fpc[c] = "done" /\ flast[c] = "challenge") =>
              attempt[c] = MAX_RETRIES /\ fres[c] = "None"
        /\ (fpc[c] = "backoff" /\ flast[c] = "challenge") =>
              attempt[c] < MAX_RETRIES /\ ppc[c] = "browser"

\* After a challenge on the fast path the browser client met a challenge
\* too, retried it, and got the page.
C14_Witness ==
    \E c \in Callers :
        /\ hxlast[c] = "cf_blocked"
        /\ Len(fwaits[c]) >= 1 /\ fwaits[c][1][1] = "challenge"
        /\ fpc[c] = "done" /\ fres[c] = "html"

\* ------------------------------------------------------ workers and units
\* The units whose _crawl_one_pa is executing: they hold a slot of
\* worker_sem and wait for a page.
Executing == {pa \in PAs : pc[pa] \in {"httpx", "browser"}}

\* The reasons for which the page loop of _crawl_one_pa ends.
TerminalWhy == {"null", "nocards", "nonew", "cap", "maxpages", "flag"}

\* C15: while run crawls, the units executing _crawl_one_pa are never more
\* than num_workers, and the free slots of worker_sem are num_workers
\* minus the executing units.
C15_WorkerCap ==
    rpc \in {"crawl", "finished"} =>
        /\ Cardinality(Executing) <= num_workers
        /\ worker_sem = num_workers - Cardinality(Executing)

\* With one worker a unit executes while the other waits for the slot.
C15_Witness ==
    /\ num_workers = 1 /\ rpc = "crawl"
    /\ \E pa, q \in PAs : pc[pa] \in {"httpx", "browser"} /\ pc[q] = "queued"

\* C17: an exception of a unit never leaves run; while run crawls there is
\* always a unit executing, or a waiting unit with a free slot, or every
\* unit is at its end so that the merge can start; and a finished run has
\* written listings.json with the records of every sibling that ended
\* without raising (up to the max_results trim) and deleted the checkpoints.
C17_UnitIsolation ==
    /\ rpc # "aborted"
    /\ rpc = "crawl" =>
          \/ Executing # {}
          \/ worker_sem > 0 /\ \E pa \in PAs : pc[pa] = "queued"
          \/ \A pa \in PAs : pc[pa] \in {"skip", "done", "raised"}
    /\ rpc = "finished" =>
          /\ listings.exists
          /\ \A pa \in PAs :
                /\ ~paFile[pa].exists
                /\ pc[pa] \in {"skip", "done", "raised"}
                /\ pc[pa] = "done" =>
                      /\ stopWhy[pa] \in TerminalWhy
                      /\ \A u \in UuidsOf(pa_records[pa]) :
                            \/ u \in UuidsOf(listings.data)
                            \/ max_results # 0 /\ Len(listings.data) = max_results

\* A unit raised, its sibling went on to a later page and ended with
\* records, and the run finished with them in listings.json.
C17_Witness ==
    /\ rpc = "finished"
    /\ \E pa, q \in PAs :
          /\ pc[pa] = "raised"
          /\ pc[q] = "done" /\ reqs[q] >= 2 /\ pa_records[q] # <<>>
          /\ UuidsOf(pa_records[q]) \subseteq UuidsOf(listings.data)

\* C18: a unit that raised has no checkpoint, and it counts for nothing in
\* the run: when the cap flag is set, the units that did not raise hold at
\* least max_results identifiers.
C18_RaisedUnitCountsNothing ==
    /\ \A pa \in PAs : pc[pa] = "raised" => ~paFile[pa].exists
    /\ stop_event =>
          Cardinality(UNION {UuidsOf(pa_records[q]) : q \in {x \in PAs : pc[x] # "raised"}})
              >= max_results

\* C19: a checkpoint written by a unit of this run is never that of a unit
\* whose pagination was cut short by a page fetch that returned None.
C19_CheckpointOnlyWhenExhausted ==
    \A pa \in PAs :
        (rpc = "crawl" /\ pc[pa] = "done" /\ paFile[pa].exists) => stopWhy[pa] # "null"

C21_OnlyFinalArtifactLeft ==
    rpc = "finished" =>
        /\ listings.exists
        /\ \A pa \in PAs : ~paFile[pa].exists
        /\ ~progressFile

\* A run that resumed over the checkpoints of an earlier run returned with
\* a listings.json that has records.
C21_Witness ==
    /\ rpc = "finished" /\ ~force /\ hadCheckpoint
    /\ listings.exists /\ listings.data # <<>>
    /\ \E pa \in PAs : reqs[pa] > 0

\* C22: with a pa_filter, pages are requested only for discovered units
\* that are in the filter; the discovered units outside it have no task,
\* and a slug of the filter that is not discovered changes nothing.
C22_FilterLimitsCrawl ==
    /\ \A pa \in PAs : reqs[pa] > 0 => pa \in pa_filter
    /\ rpc # "init" => \A pa \in PAs : pc[pa] = "out" <=> pa \notin pa_filter

\* With a filter of both discovered slugs and an unknown one, both units
\* were crawled and the run returned.
C22_Witness ==
    /\ pa_filter = {1, 2, 3} /\ rpc = "finished"
    /\ \A pa \in PAs : reqs[pa] > 0

\* C26: the k-th request of a unit is the request of page k, and a unit
\* requests at most MAX_PAGES_PER_CATEGORY pages.
C26_PagesInOrderAndBounded ==
    \A pa \in PAs :
        /\ reqs[pa] <= MAX_PAGES_PER_CATEGORY
        /\ page[pa] <= MAX_PAGES_PER_CATEGORY
        /\ reqs[pa] > 0 => page[pa] = reqs[pa]

\* A unit of which every page had a new record ended at the page limit.
C26_Witness ==
    \E pa \in PAs :
        /\ pc[pa] = "done" /\ stopWhy[pa] = "maxpages"
        /\ reqs[pa] = MAX_PAGES_PER_CATEGORY
        /\ Len(pa_records[pa]) >= MAX_PAGES_PER_CATEGORY

\* C29: listings.json is written by run only, and when it is written no
\* unit task is queued or executing, so that no checkpoint is written
\* after the merge has read them.
C29_SingleWriterAfterJoin ==
    /\ listings.exists => rpc = "finished"
    /\ rpc = "finished" =>
          /\ \A pa \in PAs : pc[pa] \in {"skip", "out", "done", "raised"}
          /\ worker_sem = num_workers

\* run returned after one unit returned and the other one raised.
C29_Witness ==
    /\ rpc = "finished" /\ listings.exists
    /\ \E pa, q \in PAs : pc[pa] = "done" /\ reqs[pa] > 0 /\ pc[q] = "raised"

\* C30: once the stop flag is set no further page is requested by any
\* unit, and no unit loses a record: the page that was in flight is parsed
\* and its records are added.
C30_NoRequestAfterStop ==
    [][stop_event =>
          /\ reqs' = reqs
          /\ \A pa \in PAs : Len(pa_records'[pa]) >= Len(pa_records[pa])]_vars

\* Two units ended on the cap with the records of their first page: the
\* page of one of them arrived after the other one had set the flag.
C30_Witness ==
    /\ rpc = "crawl" /\ stop_event
    /\ \E pa, q \in PAs :
          /\ pa # q
          /\ stopWhy[pa] = "cap" /\ stopWhy[q] = "cap"
          /\ reqs[pa] = 1 /\ reqs[q] = 1
          /\ pa_records[pa] # <<>> /\ pa_records[q] # <<>>

\* C27: a call that is in its rate-limit sleep has made no attempt yet and
\* holds no slot: the slots in use are all held by other calls that are
\* inside async with self._semaphore.
C27_SleepBeforeSlot ==
    \A c \in Callers :
        fpc[c] = "sleep" =>
            /\ attempt[c] = 0
            /\ SemaphoreWidth(max_concurrent) - fsem =
                   Cardinality({d \in Callers \ {c} : fpc[d] \in {"attempt", "backoff"}})

\* With one slot, a call went through the semaphore and returned html
\* while the other call was still in its rate-limit sleep.
C27_Witness ==
    /\ SemaphoreWidth(max_concurrent) = 1 /\ fsem = 1
    /\ \E c, d \in Callers : fpc[c] = "sleep" /\ fpc[d] = "done" /\ fres[d] = "html"

\* C28 as stated: an attempt starts only when a rate-limit sleep of its
\* own is over (directly, or after the wait for a slot that follows it),
\* and the slots in use are held by attempts in flight only, never by a
\* call that sleeps or backs off.
C28_SleepPerAttemptNoWaitInSlot ==
    /\ [](SemaphoreWidth(max_concurrent) - fsem = Cardinality(InFlight))
    /\ [][\A c \in Callers :
              (fpc[c] # "attempt" /\ fpc'[c] = "attempt") => fpc[c] \in {"sleep", "wait"}]_vars

\* C23: without force and retry_cf, a uuid that has its html file is
\* fetched on neither path, keeps the file it had and has the status
\* skipped, in memory and in fetch_status.json once run has returned; with
\* force every uuid is to fetch, whether it has a file or not, and has been
\* requested when run has returned.
C23_SkipsFilesOnDisk ==
    \A u \in Profiles :
        fppc \in {"sweep", "browser", "done"} =>
            /\ (~fargs.force /\ ~fargs.retry_cf /\ html0[u] # "none") =>
                  /\ nhx[u] = 0 /\ nbr[u] = 0
                  /\ html[u] = html0[u]
                  /\ statuses[u] = "skipped"
                  /\ fppc = "done" =>
                        statusFile.exists /\ statusFile.data[u] = "skipped"
            /\ fargs.force =>
                  /\ u \in to_fetch
                  /\ fppc = "done" => nhx[u] + nbr[u] >= 1

\* run returned after it skipped a uuid that has a saved challenge page
\* and fetched the page of a uuid that had no file.
C23_Witness ==
    /\ fppc = "done" /\ ~fargs.force /\ ~fargs.retry_cf
    /\ \E u, v \in Profiles :
          /\ html0[u] = "old_cf" /\ html[u] = "old_cf" /\ statuses[u] = "skipped"
          /\ html0[v] = "none" /\ html[v] = "new" /\ statuses[v] = "success"

\* C24: with the sweep enabled, a browser fetch is made for a uuid only
\* when every task of the sweep is over and the sweep classified the uuid
\* cf_blocked; a uuid is fetched by the browser at most once, and when run
\* has returned the uuids fetched by the browser are exactly those the
\* sweep classified cf_blocked.
C24_BrowserAfterSweepOnCfBlocked ==
    ~fargs.no_httpx =>
        \A u \in Profiles :
            /\ nbr[u] <= 1
            /\ nbr[u] > 0 =>
                  /\ hxres[u] = "cf_blocked"
                  /\ \A v \in to_fetch : tpc[v] \notin {"sleep", "wait", "get"}
                  /\ \A v \in to_fetch : hxres[v] # "none"
            /\ (fppc = "done" /\ hxres[u] = "cf_blocked") => nbr[u] = 1

\* After a sweep that classified one uuid cf_blocked and the other
\* success, the browser fetched the first one only.
C24_Witness ==
    /\ fppc = "done" /\ ~fargs.no_httpx
    /\ \E u, v \in Profiles :
          /\ hxres[u] = "cf_blocked" /\ nbr[u] = 1 /\ brres[u] = "success"
          /\ hxres[v] = "success" /\ nbr[v] = 0

\* C25 as stated: when client.get raised for a uuid, the result of
\* _httpx_fetch_one is cf_blocked and the html file of the uuid is as it
\* was.
C25_ExceptionIsCfBlocked ==
    \A u \in Profiles :
        (fppc = "sweep" /\ hxout[u] = "exception") =>
            hxres[u] = "cf_blocked" /\ html[u] = html0[u]

\* The uuids registered by the first n calls of add_uuids.
PassedUpTo(n) == UNION {passed[i] : i \in 1..n}

\* C31: after any calls of add_uuids, global_uuids is the union of the
\* sets passed; the last call returned True exactly when max_results is
\* set and global_uuids has at least max_results members; the flag is set
\* exactly when that was so after one of the calls made so far (once set
\* it stays set), and never without max_results.
C31_CrawlStateInvariant ==
    /\ global_uuids = PassedUpTo(Len(passed))
    /\ Len(passed) > 0 =>
          (ret <=> (max_results # 0 /\ Cardinality(global_uuids) >= max_results))
    /\ stop_event <=>
          \E n \in 1..Len(passed) :
              max_results # 0 /\ Cardinality(PassedUpTo(n)) >= max_results
    /\ max_results = 0 => ~stop_event

\* Two calls with overlapping sets: the first one stayed under the cap of
\* 2 and returned False, the second one reached it.
C31_Witness ==
    /\ max_results = 2 /\ Len(passed) = 2
    /\ Cardinality(passed[1]) = 1 /\ passed[1] \subseteq passed[2]
    /\ Cardinality(global_uuids) = 2 /\ stop_event /\ ret

\* The tasks that crawl or have crawled the unit pa.
CrawlersOf(pa) ==
    {i \in DOMAIN task : remaining_list[i] = pa /\ task[i] \in {"crawl", "done", "raised"}}

ItemIndex(u) == Cardinality({v \in browser_targets : v < u})

\* C33: the browser tasks in flight all belong to the batch at
\* batch_start, which holds at most batch_size targets; batch_start is a
\* multiple of batch_size; the targets of the batches before it have been
\* fetched once, their tasks are over and their statuses are in
\* fetch_status.json; the targets of the batches after it have not been
\* fetched; and when run has returned every target has been fetched once.
C33_OneBatchAtATime ==
    LET size == BatchSize(browsers)
        batch == Batch(browser_targets, batch_start, size)
    IN  /\ Cardinality(batch) <= size
        /\ batch_start % size = 0
        /\ \A u \in Profiles :
              /\ tpc[u] = "fetch" => fppc = "browser" /\ u \in batch
              /\ nbr[u] <= 1
              /\ nbr[u] = 1 => u \in browser_targets
        /\ fppc = "browser" =>
              \A u \in browser_targets :
                  /\ ItemIndex(u) < batch_start =>
                        /\ tpc[u] = "fetched" /\ nbr[u] = 1
                        /\ brres[u] \in {"success", "failed"} =>
                              statusFile.exists /\ statusFile.data[u] = brres[u]
                  /\ ItemIndex(u) >= batch_start + size => nbr[u] = 0
        /\ fppc = "done" => \A u \in browser_targets : nbr[u] = 1

\* With batches of one target, the first target is fetched and its status
\* written while the task of the second one is in flight.
C33_Witness ==
    /\ fppc = "browser" /\ BatchSize(browsers) = 1 /\ batch_start = 1
    /\ \E u, v \in browser_targets :
          /\ ItemIndex(u) = 0 /\ tpc[u] = "fetched" /\ brres[u] = "success"
          /\ statusFile.exists /\ statusFile.data[u] = "success"
          /\ ItemIndex(v) = 1 /\ tpc[v] = "fetch"

\* The uuids held by the checkpoint files that are on disk.
OnDiskUuids == UNION {UuidsOf(mfiles[s].data) : s \in MergeSlugs}

\* A checkpoint file that the merge loaded is gone.
SomeCheckpointDeleted == \E s \in MergeSlugs : mread[s].exists /\ ~mfiles[s].exists

\* C34 as stated: no checkpoint is deleted before listings.json holds the
\* merge, and at any point, crash included, every record of a checkpoint
\* is in its checkpoint file or in listings.json.
C34_NoDataLossWindow ==
    mpc # "init" =>
        /\ SomeCheckpointDeleted => mlistings.exists
        /\ \A u \in MergedUuids :
              u \in OnDiskUuids \/ (mlistings.exists /\ u \in UuidsOf(mlistings.data))

\* C34 as amended: no checkpoint is deleted before listings.json holds the
\* merge of the checkpoints, trimmed to max_results; at any point, crash
\* included, every record of a checkpoint is in its checkpoint file or in
\* listings.json, unless listings.json was trimmed to max_results records
\* and the record is one of those the trim dropped.
C34_NoLossButTrim ==
    mpc # "init" =>
        /\ SomeCheckpointDeleted =>
              mlistings = FileOf(_merge_pa_files(mread, mcap))
        /\ \A u \in MergedUuids :
              \/ u \in OnDiskUuids
              \/ mlistings.exists /\ u \in UuidsOf(mlistings.data)
              \/ /\ mcap # 0 /\ Cardinality(MergedUuids) > mcap
                 /\ mlistings.exists /\ Len(mlistings.data) = mcap

\* The process was killed in the cleanup, after one of two checkpoints was
\* removed: the records of both are in listings.json.
C34_Witness ==
    /\ mpc = "crashed" /\ mcap = 0
    /\ \E s, t \in MergeSlugs :
          /\ mread[s].exists /\ mread[s].data # <<>> /\ ~mfiles[s].exists
          /\ mfiles[t].exists /\ mfiles[t].data # <<>>
    /\ UuidsOf(mlistings.data) = MergedUuids

\* The records of unit pa that this run may merge: those it found and
\* those of the checkpoint the resume scan found.
RecordsOfUnit(pa) == Range(pa_records[pa]) \cup Range(completed_pa_files[pa].data)

\* C35 as stated: every record of the final listings.json is a record of
\* a unit of the work list, the discovery list restricted by pa_filter.
C35_OnlyWorkListMerged ==
    rpc = "finished" =>
        \A i \in 1..Len(listings.data) :
            \E pa \in PracticeAreas : listings.data[i] \in RecordsOfUnit(pa)

\* C36 as stated: a uuid whose httpx answer carries a challenge signature,
\* with whatever status code, is classified cf_blocked by the sweep and is
\* a target of the browser phase.
C36_ChallengeAlwaysEscalates ==
    \A u \in Profiles :
        hxout[u] \in {"200cf", "503cf"} =>
            /\ hxres[u] = "cf_blocked"
            /\ fppc \in {"browser", "done"} => u \in browser_targets

\* The uuids of the checkpoints that the resume scan found.
CheckpointedUuids == UNION {UuidsOf(completed_pa_files[pa].data) : pa \in PAs}

\* C37 as stated: when the checkpoints found by the resume scan already
\* hold max_results unique uuids, no remaining unit requests a page.
C37_CheckpointsCountTowardCap ==
    (rpc \in {"crawl", "finished"} /\ max_results # 0
        /\ Cardinality(CheckpointedUuids) >= max_results) =>
            \A pa \in PAs : reqs[pa] = 0

\* C38 as stated: when run has returned, fetch_status.json has an entry
\* success, failed or skipped for every uuid of listings.json.
C38_StatusForEveryUuid ==
    fppc = "done" =>
        /\ statusFile.exists
        /\ \A u \in Profiles : statusFile.data[u] \in {"success", "failed", "skipped"}

\* The task of u, in the sweep or in the browser phase, raised.
TaskRaised(u) == hxres[u] = "raised" \/ brres[u] = "raised"

\* C38 as amended: when run has returned, fetch_status.json holds the
\* statuses of run; every uuid has an entry success, failed or skipped
\* except the uuids of which a fetch task raised, which have no entry; no
\* entry is cf_blocked.
C38_StatusUnlessTaskRaised ==
    fppc = "done" =>
        /\ statusFile = _write_status(statuses)
        /\ \A u \in Profiles :
              /\ statuses[u] \in {"success", "failed", "skipped", "none"}
              /\ statuses[u] = "none" <=> TaskRaised(u)

\* run returned with the status of a uuid that was fetched and without an
\* entry for a uuid of which the browser task raised.
C38_Witness ==
    /\ fppc = "done"
    /\ \E u, v \in Profiles :
          /\ brres[u] = "raised" /\ statusFile.data[u] = "none"
          /\ statusFile.data[v] = "success"

C40_Progress ==
    <>(/\ rpc = "finished" /\ listings.exists
       /\ \A pa \in PAs : pc[pa] \in {"done", "raised"} /\ stopWhy[pa] # "none")

\* With one slot, the first unit raised, the unit that waited behind it
\* then crawled to a terminal stop, and run wrote listings.json.
C40_Witness ==
    /\ rpc = "finished" /\ listings.exists /\ num_workers = 1
    /\ \E pa, q \in PAs :
          /\ pa < q /\ pc[pa] = "raised"
          /\ pc[q] = "done" /\ reqs[q] > 0 /\ stopWhy[q] \in TerminalWhy

====
